---- MODULE Spec2Model ----
(***************************************************************************)
(* A model of the Python binding of the Trust Spanning Protocol SDK:       *)
(* SecureStore (tsp_python/tsp_python/tsp.py), its Wallet bracket and      *)
(* ReceivedTspMessage.from_flat, on top of the native engine               *)
(* tsp_python.Store, whose operations are modelled symbolically: a sealed  *)
(* message is a record that only a store holding the receiver's private    *)
(* key material can open.                                                  *)
(***************************************************************************)
EXTENDS Naturals, Sequences, FiniteSets, TLC

VARIABLES
    store,       \* store[s]: the in-memory state of SecureStore s (self.inner)
    wallet,      \* wallet[s]: the persisted wallet of SecureStore s
    last,        \* the last call: who called what, what came back, the bytes in hand
    nextThread,  \* the next unused thread id
    nextNested,  \* the number of nested VIDs minted so far
    running,     \* running[t]: how far the call of caller thread t has got
    fault,       \* the wallet call that the storage behind the wallets fails, if any
    stream       \* the stream behind AsyncStore.receive of the receiving store

vars == <<store, wallet, last, nextThread, nextNested, running, fault, stream>>

(***************************************************************************)
(* Bounds of the model.                                                    *)
(***************************************************************************)
MaxThreads == 2   \* relationship requests made after Init
MaxNested == 2    \* nested VIDs minted

(***************************************************************************)
(* Values.                                                                 *)
(***************************************************************************)
None == "None"

Stores == {"A", "B", "C", "D"}

\* The VIDs of test_routed (test.py:148-157); each is an OwnedVid made by new_vid().
BaseVids == {"nette_a", "sneaky_a", "b", "mailbox_c", "c", "sneaky_d", "nette_d"}

\* Identifiers of the VIDs minted by the nested handshake, in minting order.
NestedName == <<"nested_1", "nested_2", "nested_3", "nested_4">>

NestedVids == {NestedName[i] : i \in 1..Len(NestedName)}

AllVids == BaseVids \cup NestedVids

\* A VID nobody registers.
Stranger == "stranger"

Messages == {"hello world", "bye"}

\* Associated data a caller may want to send along.
AssociatedData == {"extra"}

\* The keys and values of the key-value operations.
Keys == {"k1", "k2"}

Values == {"v1", "v2"}

\* The aliases and metadata a caller may register a VID under.
Aliases == {"drop", "home"}

Metadata == {"m"}

\* The threads of one process that call into the same SecureStore.
Callers == {"t1", "t2"}

\* The transport endpoint bound to a VID when it is created (new_did_peer(url)).
EndpointOf(v) == <<"tcp", v>>

(***************************************************************************)
(* The state of one native store: its VID records and its relationships.   *)
(***************************************************************************)
NoVid ==
    [role |-> "none", route |-> <<>>, relation |-> None, parent |-> None,
     metadata |-> None]

EmptyStore ==
    [vids |-> [v \in AllVids |-> NoVid], rel |-> {}, kv |-> [k \in Keys |-> None],
     aliases |-> [a \in Aliases |-> None], buffered |-> {}]

IsKnown(st, v) == v \in AllVids /\ st.vids[v].role # "none"

IsPrivate(st, v) == v \in AllVids /\ st.vids[v].role = "private"

\* The relationship record of the pair (local, remote), if there is one.
RelOf(st, local, remote) == {r \in st.rel : r.local = local /\ r.remote = remote}

RelState(st, local, remote) ==
    IF RelOf(st, local, remote) = {} THEN "NoRelation"
    ELSE (CHOOSE r \in RelOf(st, local, remote) : TRUE).state

\* The store with the pair (local, remote) put in the given state.
WithRel(st, local, remote, state, thread_id, inbound) ==
    [st EXCEPT !.rel = (st.rel \ RelOf(st, local, remote)) \cup
        {[local |-> local, remote |-> remote, state |-> state,
          thread_id |-> thread_id, inbound |-> inbound]}]

Ok(st, out) == [ok |-> TRUE, err |-> None, st |-> st, out |-> out]

Fail(st, e) == [ok |-> FALSE, err |-> e, st |-> st, out |-> <<>>]

(***************************************************************************)
(* Sealed messages.  An envelope names its sender and receiver and carries *)
(* the associated data in the clear; its payload is readable only with the *)
(* receiver's private key material.                                        *)
(***************************************************************************)
Payload(tag, message, route, thread_id, nested_vid, inner) ==
    [tag |-> tag, message |-> message, route |-> route, thread_id |-> thread_id,
     nested_vid |-> nested_vid, inner |-> inner]

GenericPayload(message) == Payload("GenericMessage", message, <<>>, 0, None, <<>>)

RequestPayload(route, thread_id, nested_vid) ==
    Payload("RequestRelationship", None, route, thread_id, nested_vid, <<>>)

AcceptPayload(thread_id, nested_vid) ==
    Payload("AcceptRelationship", None, <<>>, thread_id, nested_vid, <<>>)

CancelPayload == Payload("CancelRelationship", None, <<>>, 0, None, <<>>)

\* A forwarding layer: the hops still to go and the wrapped envelope.
RoutedPayload(hops, envelope) ==
    Payload("ForwardRequest", None, hops, 0, None, <<envelope>>)

Envelope(sender, receiver, nonconfidential_data, payload) ==
    [sender |-> sender, receiver |-> receiver,
     nonconfidential_data |-> nonconfidential_data, payload |-> payload,
     crypto_type |-> "HpkeAuth", signature_type |-> "Ed25519"]

\* A byte vector of the engine as Python sees it on a flat message: a list of ints.
Vec(data) == [list |-> data]

\* What the native open_message hands to from_flat (FlatReceivedTspMessage).
Flat(variant, sender, receiver) ==
    [variant |-> variant, sender |-> sender, receiver |-> receiver,
     nonconfidential_data |-> None, message |-> None, crypto_type |-> None,
     signature_type |-> None, route |-> <<>>, nested_vid |-> None, thread_id |-> 0,
     next_hop |-> None, opaque_payload |-> <<>>]

(***************************************************************************)
(* The native store (tsp_python.Store): sealing.                           *)
(***************************************************************************)
\* Seals a payload from a private VID to a registered VID.  A receiver with a route
\* gets the envelope wrapped in a forwarding layer addressed to the first hop, signed
\* by the local VID that has the relation with that hop.
inner_seal_payload(st, sender, receiver, nonconfidential_data, payload) ==
    IF ~IsPrivate(st, sender) THEN Fail(st, "UnknownIdentifier")
    ELSE IF ~IsKnown(st, receiver) THEN Fail(st, "UnknownRecipient")
    ELSE IF st.vids[receiver].route # <<>> THEN
        LET route == st.vids[receiver].route
            first_hop == Head(route)
            outer_sender == IF IsKnown(st, first_hop)
                            THEN st.vids[first_hop].relation ELSE None
            envelope == Envelope(sender, receiver, nonconfidential_data, payload)
        IN  IF st.vids[receiver].relation = None \/ ~IsPrivate(st, outer_sender)
            THEN Fail(st, "UnknownRecipient")
            ELSE Ok(st, [endpoint |-> EndpointOf(receiver),
                         sealed |-> Envelope(outer_sender, first_hop, None,
                                             RoutedPayload(Tail(route), envelope))])
    ELSE Ok(st, [endpoint |-> EndpointOf(receiver),
                 sealed |-> Envelope(sender, receiver, nonconfidential_data, payload)])

inner_seal_message(st, sender, receiver, message, nonconfidential_data) ==
    inner_seal_payload(st, sender, receiver, nonconfidential_data,
                       GenericPayload(message))

(***************************************************************************)
(* The native store: the relationship state machine.                       *)
(*   NoRelation -> Requested -> Established -> Cancelled (terminal)        *)
(***************************************************************************)
WithRelation(st, vid, relation_vid) ==
    [st EXCEPT !.vids[vid].relation = relation_vid]

inner_set_relation_for_vid(st, vid, relation_vid) ==
    IF ~IsKnown(st, vid) THEN Fail(st, "UnknownIdentifier")
    ELSE Ok(WithRel(WithRelation(st, vid, relation_vid),
                    relation_vid, vid, "Established", 0, FALSE), <<>>)

inner_set_route_for_vid(st, vid, route) ==
    IF ~IsKnown(st, vid) THEN Fail(st, "UnknownIdentifier")
    ELSE Ok([st EXCEPT !.vids[vid].route = route], <<>>)

\* A generator that hands out the same thread id again.
FreshThread_repeated(n) == 1

\* The n-th thread id the engine generates: a fresh token per request.
FreshThread(n) == n

\* After a request the pair is Requested, unless it was already further on.
AfterRequest(st, sender, receiver, thread_id) ==
    IF RelState(st, sender, receiver) \in {"NoRelation", "Requested"}
    THEN WithRel(WithRelation(st, receiver, sender),
                 sender, receiver, "Requested", thread_id, FALSE)
    ELSE st

inner_make_relationship_request(st, sender, receiver, route, thread_id) ==
    LET r == inner_seal_payload(st, sender, receiver, None,
                                RequestPayload(route, thread_id, None))
    IN  IF r.ok THEN Ok(AfterRequest(st, sender, receiver, thread_id), r.out) ELSE r

\* An accept that does not look for the request it answers.
HasMatchingRequest_any(st, sender, receiver, thread_id) == TRUE

\* The request this accept answers: received from the receiver, with this thread id.
HasMatchingRequest(st, sender, receiver, thread_id) ==
    \E r \in RelOf(st, sender, receiver) :
        r.state = "Requested" /\ r.inbound /\ r.thread_id = thread_id

\* An engine that links the VIDs before it finds there is no request to accept.
Rejected_half_applied(st, sender, receiver) ==
    Fail(WithRelation(st, receiver, sender), "NotFound")

\* An accept with no request to answer fails and leaves the store as it was.
Rejected(st, sender, receiver) == Fail(st, "NotFound")

inner_make_relationship_accept(st, sender, receiver, thread_id, route) ==
    LET r == inner_seal_payload(st, sender, receiver, None,
                                AcceptPayload(thread_id, None))
    IN  IF ~r.ok THEN r
        ELSE IF ~HasMatchingRequest(st, sender, receiver, thread_id)
        THEN Rejected(st, sender, receiver)
        ELSE Ok(inner_set_relation_for_vid(st, receiver, sender).st, r.out)

\* The pair (local, remote) torn down: Cancelled, and the relation link removed.
Cancelled(st, local, remote) ==
    LET unlinked == IF st.vids[remote].relation = local
                    THEN WithRelation(st, remote, None) ELSE st
    IN  WithRel(unlinked, local, remote, "Cancelled", 0, FALSE)

inner_make_relationship_cancel(st, sender, receiver) ==
    LET r == inner_seal_payload(st, sender, receiver, None, CancelPayload)
    IN  IF ~r.ok THEN r
        ELSE IF RelState(st, sender, receiver) \notin {"Requested", "Established"}
        THEN Fail(st, "NotFound")
        ELSE Ok(Cancelled(st, sender, receiver), r.out)

(***************************************************************************)
(* The native store: the nested handshake.  Each side mints a VID of its   *)
(* own and sends its identifier inside the handshake payload, which goes   *)
(* from parent to parent.                                                  *)
(***************************************************************************)
\* An engine that derives every nested VID from the same key pair.
FreshVid_reused(n) == NestedName[1]

\* The identifier of the n-th VID the engine mints: a new key pair, a new identifier.
FreshVid(n) == NestedName[n]

Minted(st, nested, parent) ==
    [st EXCEPT !.vids[nested] = [NoVid EXCEPT !.role = "private", !.parent = parent]]

Learned(st, nested, parent) ==
    IF nested \in AllVids /\ ~IsKnown(st, nested)
    THEN [st EXCEPT !.vids[nested] = [NoVid EXCEPT !.role = "verified", !.parent = parent]]
    ELSE st

inner_make_nested_relationship_request(st, parent_sender, receiver, thread_id, nested) ==
    LET r == inner_seal_payload(st, parent_sender, receiver, None,
                                RequestPayload(<<>>, thread_id, nested))
    IN  IF ~r.ok THEN r
        ELSE Ok(WithRel(Minted(st, nested, parent_sender),
                        nested, receiver, "Requested", thread_id, FALSE),
                [sealed |-> r.out, vid |-> nested])

inner_make_nested_relationship_accept(st, sender, receiver, thread_id, nested) ==
    LET parent_receiver == IF IsKnown(st, receiver) THEN st.vids[receiver].parent ELSE None
        r == inner_seal_payload(st, sender, parent_receiver, None,
                                AcceptPayload(thread_id, nested))
    IN  IF ~r.ok THEN r
        ELSE Ok(WithRel(WithRelation(Minted(st, nested, sender), receiver, nested),
                        nested, receiver, "Established", 0, FALSE),
                [sealed |-> r.out, vid |-> nested])

(***************************************************************************)
(* The native store: opening.  The signature is verified against the       *)
(* sender's registered key material, then the payload is decrypted with    *)
(* the receiver's private key material, then it is classified.             *)
(***************************************************************************)
\* The signature of an envelope is checked with the sender's public key material.
CanVerify(st, e) == IsKnown(st, e.sender)

\* A payload that is not encrypted to its receiver.
CanDecrypt_anyone(st, e) == TRUE

\* The payload of an envelope is decrypted with the receiver's private key material.
CanDecrypt(st, e) == IsPrivate(st, e.receiver)

\* The nested request of this store that an accept with this thread id answers.
PendingNested(st, thread_id) ==
    {r \in st.rel : r.thread_id = thread_id /\ r.state = "Requested" /\ ~r.inbound
                    /\ r.local \in NestedVids}

OpenedRequest(st, e) ==
    IF e.payload.nested_vid # None
    THEN Learned(st, e.payload.nested_vid, e.sender)
    ELSE IF RelState(st, e.receiver, e.sender) \in {"NoRelation", "Requested"}
    THEN WithRel(st, e.receiver, e.sender, "Requested", e.payload.thread_id, TRUE)
    ELSE st

OpenedAccept(st, e) ==
    IF e.payload.nested_vid # None
    THEN LET learned == Learned(st, e.payload.nested_vid, e.sender)
         IN  IF PendingNested(st, e.payload.thread_id) = {} THEN learned
             ELSE LET p == CHOOSE r \in PendingNested(st, e.payload.thread_id) : TRUE
                      linked == WithRelation(learned, e.payload.nested_vid, p.local)
                  IN  WithRel([linked EXCEPT !.rel = @ \ {p}], p.local,
                              e.payload.nested_vid, "Established", 0, FALSE)
    ELSE IF \E r \in RelOf(st, e.receiver, e.sender) :
                r.state = "Requested" /\ ~r.inbound /\ r.thread_id = e.payload.thread_id
    THEN inner_set_relation_for_vid(st, e.sender, e.receiver).st
    ELSE st

OpenedCancel(st, e) ==
    IF RelState(st, e.receiver, e.sender) \in {"Requested", "Established"}
    THEN Cancelled(st, e.receiver, e.sender)
    ELSE st

inner_open_message(st, e) ==
    IF ~CanVerify(st, e) THEN Fail(st, "SignatureInvalid")
    ELSE IF ~CanDecrypt(st, e) THEN Fail(st, "DecryptionFailed")
    ELSE LET base == Flat(e.payload.tag, e.sender, e.receiver)
             tag == e.payload.tag
         IN  CASE tag = "GenericMessage" ->
                    Ok(st, [base EXCEPT !.nonconfidential_data = e.nonconfidential_data,
                                        !.message = Vec(e.payload.message),
                                        !.crypto_type = e.crypto_type,
                                        !.signature_type = e.signature_type])
               [] tag = "RequestRelationship" ->
                    Ok(OpenedRequest(st, e),
                       [base EXCEPT !.route = e.payload.route,
                                    !.nested_vid = e.payload.nested_vid,
                                    !.thread_id = e.payload.thread_id])
               [] tag = "AcceptRelationship" ->
                    Ok(OpenedAccept(st, e),
                       [base EXCEPT !.nested_vid = e.payload.nested_vid])
               [] tag = "CancelRelationship" -> Ok(OpenedCancel(st, e), base)
               [] tag = "ForwardRequest" ->
                    IF e.payload.route = <<>> THEN Fail(st, "MalformedRoute")
                    ELSE Ok(st, [base EXCEPT !.next_hop = Head(e.payload.route),
                                        !.route = Tail(e.payload.route),
                                        !.opaque_payload = e.payload.inner])
               [] OTHER -> Ok(st, base)

(***************************************************************************)
(* The native store: forwarding.  An intermediary wraps the opaque payload *)
(* in a new layer for the next hop; the last hop hands on the payload as   *)
(* it is, which is the original envelope.                                  *)
(***************************************************************************)
inner_forward_routed_message(st, next_hop, route, opaque_payload) ==
    IF ~IsKnown(st, next_hop) THEN Fail(st, "UnknownRecipient")
    ELSE IF opaque_payload = <<>> THEN Fail(st, "MalformedRoute")
    ELSE IF route = <<>>
    THEN Ok(st, [endpoint |-> EndpointOf(next_hop), sealed |-> opaque_payload[1]])
    ELSE IF ~IsPrivate(st, st.vids[next_hop].relation) THEN Fail(st, "UnknownIdentifier")
    ELSE Ok(st, [endpoint |-> EndpointOf(next_hop),
                 sealed |-> Envelope(st.vids[next_hop].relation, next_hop, None,
                                     RoutedPayload(route, opaque_payload[1]))])

\* The wallet calls that can fail when the storage behind the wallet does.
WalletFaults == {"read_wallet", "write_wallet"}

\* read_wallet: the in-memory state becomes the persisted one; st is the in-memory
\* state after the call.
inner_read_wallet(memory, persisted) ==
    IF fault = "read_wallet" THEN Fail(memory, "WalletError") ELSE Ok(persisted, None)

\* write_wallet: the persisted state becomes the in-memory one; st is the persisted
\* state after the call.
inner_write_wallet(memory, persisted) ==
    IF fault = "write_wallet" THEN Fail(persisted, "WalletError") ELSE Ok(memory, None)

(***************************************************************************)
(* The native store: the key-value entries of the wallet.                  *)
(***************************************************************************)
inner_store_kv(st, key, value) == Ok([st EXCEPT !.kv[key] = value], None)

inner_get_kv(st, key) ==
    IF st.kv[key] = None THEN Fail(st, "NotFound") ELSE Ok(st, st.kv[key])

inner_remove_kv(st, key) == Ok([st EXCEPT !.kv[key] = None], None)

(***************************************************************************)
(* tsp.py: ReceivedTspMessage.from_flat and the Wallet bracket.            *)
(***************************************************************************)
ValueError(text) == [class |-> "ValueError", text |-> text]

\* The dataclasses: the constructor stores its positional arguments field by field.
GenericMessage_swapped(sender, receiver, nonconfidential_data, message, crypto_type, signature_type) ==
    [class |-> "GenericMessage", sender |-> receiver, receiver |-> sender,
     nonconfidential_data |-> nonconfidential_data, message |-> message,
     crypto_type |-> crypto_type, signature_type |-> signature_type]

GenericMessage(sender, receiver, nonconfidential_data, message, crypto_type, signature_type) ==
    [class |-> "GenericMessage", sender |-> sender, receiver |-> receiver,
     nonconfidential_data |-> nonconfidential_data, message |-> message,
     crypto_type |-> crypto_type, signature_type |-> signature_type]

\* The fields declared in another order: receiver before sender.
AcceptRelationship_swapped(sender, receiver, nested_vid) ==
    [class |-> "AcceptRelationship", sender |-> receiver, receiver |-> sender,
     nested_vid |-> nested_vid]

\* The older two-field class, which does not keep the nested VID.
AcceptRelationship_without_nested_vid(sender, receiver, nested_vid) ==
    [class |-> "AcceptRelationship", sender |-> sender, receiver |-> receiver,
     nested_vid |-> None]

AcceptRelationship(sender, receiver, nested_vid) ==
    [class |-> "AcceptRelationship", sender |-> sender, receiver |-> receiver,
     nested_vid |-> nested_vid]

CancelRelationship_swapped(sender, receiver) ==
    [class |-> "CancelRelationship", sender |-> receiver, receiver |-> sender]

CancelRelationship(sender, receiver) ==
    [class |-> "CancelRelationship", sender |-> sender, receiver |-> receiver]

RequestRelationship_swapped(sender, receiver, route, nested_vid, thread_id) ==
    [class |-> "RequestRelationship", sender |-> receiver, receiver |-> sender,
     route |-> route, nested_vid |-> nested_vid, thread_id |-> thread_id]

RequestRelationship(sender, receiver, route, nested_vid, thread_id) ==
    [class |-> "RequestRelationship", sender |-> sender, receiver |-> receiver,
     route |-> route, nested_vid |-> nested_vid, thread_id |-> thread_id]

\* The fields declared in another order: next_hop before receiver.
ForwardRequest_reordered(sender, receiver, next_hop, route, opaque_payload) ==
    [class |-> "ForwardRequest", sender |-> sender, receiver |-> next_hop,
     next_hop |-> receiver, route |-> route, opaque_payload |-> opaque_payload]

ForwardRequest_swapped(sender, receiver, next_hop, route, opaque_payload) ==
    [class |-> "ForwardRequest", sender |-> receiver, receiver |-> sender,
     next_hop |-> next_hop, route |-> route, opaque_payload |-> opaque_payload]

ForwardRequest(sender, receiver, next_hop, route, opaque_payload) ==
    [class |-> "ForwardRequest", sender |-> sender, receiver |-> receiver,
     next_hop |-> next_hop, route |-> route, opaque_payload |-> opaque_payload]

\* bytes(x) of a list of ints: the bytes object with that content.
bytes(x) == x.list

\* A classifier that returns None for a variant it does not know.
Unrecognized_dropped(other) == [class |-> "NoneType", text |-> None]

\* case other: raise ValueError(f"Unrecognized variant: {other}")
Unrecognized(other) == ValueError(<<"Unrecognized variant: ", other>>)

\* A classifier that files one variant under the class of another.
from_flat_misfiled(msg) ==
    CASE msg.variant = "GenericMessage" ->
            GenericMessage(msg.sender, msg.receiver, msg.nonconfidential_data,
                           bytes(msg.message), msg.crypto_type, msg.signature_type)
      [] msg.variant = "RequestRelationship" ->
            RequestRelationship(msg.sender, msg.receiver, msg.route, msg.nested_vid,
                                msg.thread_id)
      [] msg.variant = "AcceptRelationship" ->
            AcceptRelationship(msg.sender, msg.receiver, msg.nested_vid)
      [] msg.variant = "CancelRelationship" ->
            AcceptRelationship(msg.sender, msg.receiver, msg.nested_vid)
      [] msg.variant = "ForwardRequest" ->
            ForwardRequest(msg.sender, msg.receiver, msg.next_hop, msg.route,
                           msg.opaque_payload)
      [] msg.variant = "PendingMessage" -> ValueError("todo!")
      [] OTHER -> Unrecognized(msg.variant)

from_flat(msg) ==
    CASE msg.variant = "GenericMessage" ->
            GenericMessage(msg.sender, msg.receiver, msg.nonconfidential_data,
                           bytes(msg.message), msg.crypto_type, msg.signature_type)
      [] msg.variant = "RequestRelationship" ->
            RequestRelationship(msg.sender, msg.receiver, msg.route, msg.nested_vid,
                                msg.thread_id)
      [] msg.variant = "AcceptRelationship" ->
            AcceptRelationship(msg.sender, msg.receiver, msg.nested_vid)
      [] msg.variant = "CancelRelationship" ->
            CancelRelationship(msg.sender, msg.receiver)
      [] msg.variant = "ForwardRequest" ->
            ForwardRequest(msg.sender, msg.receiver, msg.next_hop, msg.route,
                           msg.opaque_payload)
      [] msg.variant = "PendingMessage" -> ValueError("todo!")
      [] OTHER -> Unrecognized(msg.variant)

\* Wallet.__enter__: one read_wallet call on the shared native store; an error of
\* the call is raised out of __enter__.
\* A bracket that goes on into the body when the load failed.
Wallet_enter_regardless(memory, persisted) ==
    LET read == inner_read_wallet(memory, persisted)
    IN  [memory |-> read.st, persisted |-> persisted, calls |-> <<"read_wallet">>,
         ok |-> TRUE, err |-> None]

Wallet_enter(memory, persisted) ==
    LET read == inner_read_wallet(memory, persisted)
    IN  [memory |-> read.st, persisted |-> persisted, calls |-> <<"read_wallet">>,
         ok |-> read.ok, err |-> read.err]

\* A bracket that flushes only when the body did not raise.
Wallet_exit_on_success(memory, persisted, type) ==
    LET write == inner_write_wallet(memory, persisted)
    IN  IF type = None
        THEN [memory |-> memory, persisted |-> write.st, calls |-> <<"write_wallet">>,
              ok |-> write.ok, err |-> write.err]
        ELSE [memory |-> memory, persisted |-> persisted, calls |-> <<>>,
              ok |-> TRUE, err |-> None]

\* A bracket that catches the error of the flush and goes on.
Wallet_exit_swallowing(memory, persisted, type) ==
    LET write == inner_write_wallet(memory, persisted)
    IN  [memory |-> memory, persisted |-> write.st, calls |-> <<"write_wallet">>,
         ok |-> TRUE, err |-> None]

\* A bracket that does not flush when the body raised a ValueError.
Wallet_exit_unless_ValueError(memory, persisted, type) ==
    LET write == inner_write_wallet(memory, persisted)
    IN  IF type = "ValueError"
        THEN [memory |-> memory, persisted |-> persisted, calls |-> <<>>,
              ok |-> TRUE, err |-> None]
        ELSE [memory |-> memory, persisted |-> write.st, calls |-> <<"write_wallet">>,
              ok |-> write.ok, err |-> write.err]

\* Wallet.__exit__(type, value, traceback): one write_wallet call, whatever the
\* exception type; it returns None, so an exception of the body goes on to the
\* caller, and an error of write_wallet is raised out of __exit__.
Wallet_exit(memory, persisted, type) ==
    LET write == inner_write_wallet(memory, persisted)
    IN  [memory |-> memory, persisted |-> write.st, calls |-> <<"write_wallet">>,
         ok |-> write.ok, err |-> write.err]

(***************************************************************************)
(* tsp.py: the bodies of the SecureStore operations, run on the state the  *)
(* bracket loaded.                                                         *)
(***************************************************************************)
\* A method that hands its VIDs to the engine in the wrong order.
seal_message_swapped(st, sender, receiver, message) ==
    inner_seal_message(st, receiver, sender, message, None)

seal_message(st, sender, receiver, message) ==
    inner_seal_message(st, sender, receiver, message, None)

\* A method that reads the headers of a message the engine refused.
open_message_unverified(st, message) ==
    LET flat_message == inner_open_message(st, message)
    IN  IF flat_message.ok
        THEN LET received == from_flat(flat_message.out)
             IN  IF received.class = "ValueError"
                 THEN [flat_message EXCEPT !.ok = FALSE, !.err = "ValueError",
                                           !.out = received]
                 ELSE [flat_message EXCEPT !.out = received]
        ELSE [flat_message EXCEPT !.out = [class |-> message.payload.tag,
                                           sender |-> message.sender,
                                           receiver |-> message.receiver]]

open_message(st, message) ==
    LET flat_message == inner_open_message(st, message)
    IN  IF flat_message.ok
        THEN LET received == from_flat(flat_message.out)
             IN  IF received.class = "ValueError"
                 THEN [flat_message EXCEPT !.ok = FALSE, !.err = "ValueError",
                                           !.out = received]
                 ELSE [flat_message EXCEPT !.out = received]
        ELSE flat_message

\* The engine keeps, in memory, a message it does not hand over as one of the five
\* kinds: PendingMessage is reserved for buffered delivery.
Kept(st, e) == [st EXCEPT !.buffered = @ \cup {e}]

\* The engine's receive(vid): the oldest message the transport holds for the
\* address, opened, or None when there is none. Whether the engine keeps a message
\* it reports as pending, or as a kind of a later engine, is its own choice.
inner_receive(st, vid, pending, buffers) ==
    IF pending = <<>> THEN Ok(st, None)
    ELSE LET opened == inner_open_message(st, Head(pending))
         IN  IF /\ opened.ok /\ buffers
                /\ opened.out.variant \notin
                      {"GenericMessage", "RequestRelationship", "AcceptRelationship",
                       "CancelRelationship", "ForwardRequest"}
             THEN [opened EXCEPT !.st = Kept(@, Head(pending))]
             ELSE opened

\* SecureStore.receive, inside the bracket.
receive(st, vid, pending, buffers) ==
    LET message == inner_receive(st, vid, pending, buffers)
    IN  IF ~message.ok \/ pending = <<>> THEN message
        ELSE LET received == from_flat(message.out)
             IN  IF received.class = "ValueError"
                 THEN [message EXCEPT !.ok = FALSE, !.err = "ValueError",
                                      !.out = received]
                 ELSE [message EXCEPT !.out = received]

store_kv(st, key, value) == inner_store_kv(st, key, value)

get_kv(st, key) == inner_get_kv(st, key)

remove_kv(st, key) == inner_remove_kv(st, key)

\* A method that hands the route on back to front.
set_route_for_vid_reversed(st, vid, route) ==
    inner_set_route_for_vid(st, vid, [i \in 1..Len(route) |-> route[Len(route) + 1 - i]])

set_route_for_vid(st, vid, route) == inner_set_route_for_vid(st, vid, route)

\* A method that takes the relationship for granted once it has asked for it.
make_relationship_request_eager(st, sender, receiver, route, thread_id) ==
    LET r == inner_make_relationship_request(st, sender, receiver, route, thread_id)
    IN  IF r.ok THEN Ok(inner_set_relation_for_vid(r.st, receiver, sender).st, r.out)
        ELSE r

make_relationship_request(st, sender, receiver, route, thread_id) ==
    inner_make_relationship_request(st, sender, receiver, route, thread_id)

\* A method that hands its VIDs to the engine in the wrong order.
make_relationship_accept_swapped(st, sender, receiver, thread_id, route) ==
    inner_make_relationship_accept(st, receiver, sender, thread_id, route)

make_relationship_accept(st, sender, receiver, thread_id, route) ==
    inner_make_relationship_accept(st, sender, receiver, thread_id, route)

make_relationship_cancel(st, sender, receiver) ==
    inner_make_relationship_cancel(st, sender, receiver)

make_nested_relationship_request(st, parent_sender, receiver, thread_id, nested) ==
    inner_make_nested_relationship_request(st, parent_sender, receiver, thread_id, nested)

make_nested_relationship_accept(st, sender, receiver, thread_id, nested) ==
    inner_make_nested_relationship_accept(st, sender, receiver, thread_id, nested)

\* A method that hands the payload on as it is when the engine refuses the hop.
forward_routed_message_unchecked(st, next_hop, route, opaque_payload) ==
    LET r == inner_forward_routed_message(st, next_hop, route, opaque_payload)
    IN  IF r.ok THEN r
        ELSE Ok(st, [endpoint |-> EndpointOf(next_hop), sealed |-> opaque_payload[1]])

\* A method that also asks the next hop for a relationship.
forward_routed_message_befriending(st, next_hop, route, opaque_payload) ==
    LET r == inner_forward_routed_message(st, next_hop, route, opaque_payload)
    IN  IF r.ok
        THEN Ok(AfterRequest(r.st, st.vids[next_hop].relation, next_hop, 0), r.out)
        ELSE r

\* A method that hands the engine the route with the next hop put back in front.
forward_routed_message_looping(st, next_hop, route, opaque_payload) ==
    inner_forward_routed_message(st, next_hop, <<next_hop>> \o route, opaque_payload)

forward_routed_message(st, next_hop, route, opaque_payload) ==
    inner_forward_routed_message(st, next_hop, route, opaque_payload)

(***************************************************************************)
(* Registration (native store), used to build the initial stores.          *)
(***************************************************************************)
\* The store with the VID registered in a role, under an alias if one is given: the
\* alias then names this VID.
Registered(st, vid, role, alias, metadata) ==
    [st EXCEPT !.vids[vid].role = role,
               !.vids[vid].metadata = metadata,
               !.aliases = IF alias = None THEN @ ELSE [@ EXCEPT ![alias] = vid]]

inner_add_private_vid(st, vid, alias, metadata) ==
    IF IsKnown(st, vid) /\ ~IsPrivate(st, vid) THEN Fail(st, "DuplicateIdentifier")
    ELSE Ok(Registered(st, vid, "private", alias, metadata), <<>>)

inner_add_verified_owned_vid(st, vid, alias, metadata) ==
    IF IsPrivate(st, vid) THEN Fail(st, "DuplicateIdentifier")
    ELSE Ok(Registered(st, vid, "verified", alias, metadata), <<>>)

\* forget_vid: the record goes, with the aliases that name it.
inner_forget_vid(st, vid) ==
    IF ~IsKnown(st, vid) THEN Fail(st, "NotFound")
    ELSE Ok([st EXCEPT !.vids[vid] = NoVid,
                       !.aliases = [a \in Aliases |-> IF @[a] = vid THEN None ELSE @[a]]],
            <<>>)

inner_resolve_alias(st, alias) == Ok(st, st.aliases[alias])

add_private_vid(st, vid, alias, metadata) ==
    inner_add_private_vid(st, vid, alias, metadata)

add_verified_owned_vid(st, vid, alias, metadata) ==
    inner_add_verified_owned_vid(st, vid, alias, metadata)

forget_vid(st, vid) == inner_forget_vid(st, vid)

\* A lookup that uses the alias up.
resolve_alias_consuming(st, alias) ==
    LET r == inner_resolve_alias(st, alias)
    IN  Ok([r.st EXCEPT !.aliases[alias] = None], r.out)

resolve_alias(st, alias) == inner_resolve_alias(st, alias)

RECURSIVE WithPrivate(_, _)
WithPrivate(st, vs) ==
    IF vs = <<>> THEN st
    ELSE WithPrivate(add_private_vid(st, Head(vs), None, None).st, Tail(vs))

RECURSIVE WithVerified(_, _)
WithVerified(st, vs) ==
    IF vs = <<>> THEN st
    ELSE WithVerified(add_verified_owned_vid(st, Head(vs), None, None).st, Tail(vs))

TestRoute == <<"b", "c", "mailbox_c">>

\* One store holding both parties (AliceBob.setUp, test.py:12-18).
SingleWorld ==
    [s \in Stores |->
        IF s = "A" THEN WithPrivate(EmptyStore, <<"nette_a", "sneaky_a">>)
        ELSE EmptyStore]

\* Two parties that know each other (test_nested_automatic, test.py:257-264).
PairWorld ==
    [s \in Stores |->
        CASE s = "A" -> WithVerified(WithPrivate(EmptyStore, <<"nette_a">>), <<"b">>)
          [] s = "B" -> WithVerified(WithPrivate(EmptyStore, <<"b">>), <<"nette_a">>)
          [] OTHER -> EmptyStore]

\* The four stores of test_routed after registration (test.py:159-178).
RegisteredWorld ==
    [s \in Stores |->
        CASE s = "A" -> WithVerified(WithPrivate(EmptyStore, <<"nette_a", "sneaky_a">>),
                                     <<"b", "sneaky_d">>)
          [] s = "B" -> WithVerified(WithPrivate(EmptyStore, <<"b">>), <<"nette_a", "c">>)
          [] s = "C" -> WithVerified(WithPrivate(EmptyStore,
                                                 <<"mailbox_c", "c", "nette_d">>), <<"b">>)
          [] s = "D" -> WithVerified(WithPrivate(EmptyStore, <<"sneaky_d", "nette_d">>),
                                     <<"sneaky_a", "mailbox_c">>)]

\* The same stores after the relations and the route are set (test.py:182-197).
RoutedWorld ==
    [s \in Stores |->
        CASE s = "A" ->
                set_route_for_vid(
                    make_relationship_request(
                        make_relationship_request(RegisteredWorld["A"],
                            "nette_a", "b", <<>>, 1).st,
                        "sneaky_a", "sneaky_d", <<>>, 2).st,
                    "sneaky_d", TestRoute).st
          [] s = "B" ->
                make_relationship_request(RegisteredWorld["B"], "b", "c", <<>>, 3).st
          [] s = "C" ->
                make_relationship_request(RegisteredWorld["C"],
                    "nette_d", "mailbox_c", <<>>, 4).st
          [] s = "D" -> RegisteredWorld["D"]]

\* The thread id of the parents' handshake in the setup of test_nested_automatic: one
\* that no request made later gets.
ParentThread == 0

\* The two parties after the handshake between their parent VIDs, each message
\* opened by the other party (test_nested_automatic, test.py:266-294).
EstablishedWorld ==
    LET request == make_relationship_request(PairWorld["A"], "nette_a", "b", <<>>,
                                             ParentThread)
        opened == open_message(PairWorld["B"], request.out.sealed)
        accept == make_relationship_accept(opened.st, "b", "nette_a", ParentThread, <<>>)
        done == open_message(request.st, accept.out.sealed)
    IN  [s \in Stores |->
            CASE s = "A" -> done.st
              [] s = "B" -> accept.st
              [] OTHER -> EmptyStore]

\* Thread ids used by the setup of test_routed.
SetupThreads == 4

Idle == [op |-> "init", store |-> None, call |-> None, ok |-> TRUE, err |-> None,
         out |-> <<>>, msg |-> <<>>, calls |-> <<>>]

\* A caller thread that is in no call.
NoCall == [pc |-> "idle", op |-> None, key |-> None, value |-> None, ok |-> TRUE,
           err |-> None, out |-> None, calls |-> <<>>]

NotRunning == [t \in Callers |-> NoCall]

\* The stream behind AsyncStore.receive: the sealed messages the transport has
\* delivered and that were not taken yet, oldest first, and whether the transport
\* has ended.
NoStream == [pending |-> <<>>, ended |-> FALSE]

\* One party alone, or two parties: the stores the handshakes are run in.
Init ==
    /\ store \in {SingleWorld, PairWorld}
    /\ wallet = store
    /\ last = Idle
    /\ nextThread = 1
    /\ nextNested = 0
    /\ running = NotRunning
    /\ fault = None
    /\ stream = NoStream

\* Two parties that know each other's VID (test_nested_automatic).
InitNested ==
    /\ store = PairWorld
    /\ wallet = store
    /\ last = Idle
    /\ nextThread = 1
    /\ nextNested = 0
    /\ running = NotRunning
    /\ fault = None
    /\ stream = NoStream

\* Two parties whose parent VIDs have completed the handshake.
InitEstablished ==
    /\ store = EstablishedWorld
    /\ wallet = store
    /\ last = Idle
    /\ nextThread = 1
    /\ nextNested = 0
    /\ running = NotRunning
    /\ fault = None
    /\ stream = NoStream

\* Four parties, the route set: the stores routed messages travel through.
InitRouted ==
    /\ store = RoutedWorld
    /\ wallet = store
    /\ last = Idle
    /\ nextThread = SetupThreads + 1
    /\ nextNested = 0
    /\ running = NotRunning
    /\ fault = None
    /\ stream = NoStream

(***************************************************************************)
(* The operations of SecureStore, each inside its Wallet bracket.  The     *)
(* caller keeps what the last call returned: sealed bytes go to whoever    *)
(* opens them next, an opened ForwardRequest is what gets forwarded.       *)
(***************************************************************************)
\* A call that seals: what the caller passed and, for the nested handshake, the VID
\* it got back; with it, what the store held for the pair when the call was made.
Origin(op, s, sender, receiver, message, nonconfidential_data, thread_id, nested_vid) ==
    [op |-> op, store |-> s, sender |-> sender, receiver |-> receiver,
     message |-> message, nonconfidential_data |-> nonconfidential_data,
     thread_id |-> thread_id, nested_vid |-> nested_vid,
     was |-> RelState(store[s], sender, receiver),
     route |-> IF IsKnown(store[s], receiver) THEN store[s].vids[receiver].route
               ELSE <<>>]

\* Sealed bytes in hand, with the call they stem from and the forwards so far.
Held(sealed, origin, forwards) ==
    [sealed |-> sealed, origin |-> origin, forwards |-> forwards]

Loaded(s) == Wallet_enter(store[s], wallet[s]).memory

Senders(s) == {v \in AllVids : IsPrivate(store[s], v)}

Receivers(s) == {v \in AllVids : IsKnown(store[s], v)} \cup {Stranger}

\* The stores that take part: those in which something is registered.
Parties == {s \in Stores : \E v \in AllVids : IsKnown(store[s], v)}

\* The handshakes are run between the parties' own VIDs, not between minted ones.
Parents(s) == Senders(s) \cap BaseVids

Peers(s, sender) == (Receivers(s) \ NestedVids) \ {sender}

\* Whom a VID of store s may write to: any other VID, registered or not.
Others(s, sender) == Receivers(s) \ {sender}

\* The caller of store s has just opened a RequestRelationship.
OpenedRequestAt(s) ==
    /\ last.op = "open_message" /\ last.store = s /\ last.ok
    /\ last.out.class = "RequestRelationship"

\* The thread ids issued so far: what a caller may pass to make_relationship_accept.
IssuedThreads == 1..(nextThread - 1)

\* The exception type __exit__ is handed: None when the body returned.
Raised(r) == IF r.ok THEN None ELSE r.err

\* with Wallet(self): __enter__, then the body on the loaded state, with result r,
\* then __exit__ however the body ended.  When __enter__ raises, neither the body nor
\* __exit__ runs.  Here one call runs from entry to exit with no other call of the
\* process in between.
Bracketed(s, r) ==
    LET enter == Wallet_enter(store[s], wallet[s])
        exit == Wallet_exit(r.st, wallet[s], Raised(r))
    IN  /\ \A t \in Callers : running[t].pc = "idle"
        /\ store' = [store EXCEPT ![s] = IF enter.ok THEN exit.memory ELSE enter.memory]
        /\ wallet' = [wallet EXCEPT ![s] = IF enter.ok THEN exit.persisted ELSE @]
        /\ UNCHANGED <<running, fault>>

Bracket(s, r) == Bracketed(s, r) /\ UNCHANGED stream

\* The wallet calls of one bracketed operation, in order, around its body.
WalletCalls(s, r) ==
    LET enter == Wallet_enter(store[s], wallet[s])
    IN  IF enter.ok
        THEN enter.calls \o <<"body">> \o Wallet_exit(r.st, wallet[s], Raised(r)).calls
        ELSE enter.calls

\* What the caller of a bracketed operation gets: the error of __enter__, else the
\* error of __exit__, which takes the place of whatever the body returned or raised,
\* else the result of the body.
Outcome(s, r) ==
    LET enter == Wallet_enter(store[s], wallet[s])
        exit == Wallet_exit(r.st, wallet[s], Raised(r))
    IN  IF ~enter.ok THEN Fail(enter.memory, enter.err)
        ELSE IF ~exit.ok THEN Fail(r.st, exit.err)
        ELSE r

\* The body of the operation ran and returned.
Ran(s, r) == Wallet_enter(store[s], wallet[s]).ok /\ r.ok

Returned(op, s, call, r, msg) ==
    LET outcome == Outcome(s, r)
    IN  last' = [op |-> op, store |-> s, call |-> call, ok |-> outcome.ok,
                 err |-> outcome.err, out |-> outcome.out, msg |-> msg,
                 calls |-> WalletCalls(s, r)]

\* A call that seals: the bytes it returns are now in the caller's hand.
Sealing(op, s, r, sealed, origin, forwards) ==
    /\ Bracket(s, r)
    /\ Returned(op, s, origin, r,
                IF Outcome(s, r).ok THEN <<Held(sealed, origin, forwards)>> ELSE <<>>)

SealMessage(s, sender, receiver, message) ==
    /\ LET r == seal_message(Loaded(s), sender, receiver, message)
       IN  Sealing("seal_message", s, r, r.out.sealed,
                   Origin("seal_message", s, sender, receiver, message, None, 0, None), 0)
    /\ UNCHANGED <<nextThread, nextNested>>

\* seal_message(sender, receiver, message, nonconfidential_data): the method takes no
\* fourth argument, so the call raises TypeError before the bracket is entered.
SealMessageWithData(s, sender, receiver, message, nonconfidential_data) ==
    /\ last' = [Idle EXCEPT !.op = "seal_message", !.store = s, !.ok = FALSE,
                            !.err = "TypeError",
                            !.call = Origin("seal_message", s, sender, receiver, message,
                                            nonconfidential_data, 0, None)]
    /\ UNCHANGED <<store, wallet, nextThread, nextNested, running, fault, stream>>

OpenMessage(s) ==
    /\ last.msg # <<>>
    /\ LET r == open_message(Loaded(s), last.msg[1].sealed)
       IN  /\ Bracket(s, r)
           /\ Returned("open_message", s, None, r, last.msg)
    /\ UNCHANGED <<nextThread, nextNested>>

ForwardRoutedMessage(s) ==
    /\ last.op = "open_message" /\ last.store = s /\ last.ok
    /\ last.out.class = "ForwardRequest"
    /\ LET r == forward_routed_message(Loaded(s), last.out.next_hop, last.out.route,
                                       last.out.opaque_payload)
       IN  Sealing("forward_routed_message", s, r, r.out.sealed, last.msg[1].origin,
                   last.msg[1].forwards + 1)
    /\ UNCHANGED <<nextThread, nextNested>>

\* forward_routed_message with a next hop of the caller's choosing, and the route and
\* payload of the ForwardRequest just opened.
ForwardRoutedMessageTo(s, next_hop) ==
    /\ last.op = "open_message" /\ last.store = s /\ last.ok
    /\ last.out.class = "ForwardRequest"
    /\ LET r == forward_routed_message(Loaded(s), next_hop, last.out.route,
                                       last.out.opaque_payload)
       IN  Sealing("forward_routed_message", s, r, r.out.sealed,
                   [op |-> "forward_routed_message", store |-> s, next_hop |-> next_hop,
                    route |-> last.out.route, opaque_payload |-> last.out.opaque_payload],
                   last.msg[1].forwards + 1)
    /\ UNCHANGED <<nextThread, nextNested>>

SetRouteForVid(s, vid, route) ==
    LET r == set_route_for_vid(Loaded(s), vid, route)
    IN  /\ Bracket(s, r)
        /\ Returned("set_route_for_vid", s, [vid |-> vid, route |-> route], r, <<>>)
        /\ UNCHANGED <<nextThread, nextNested>>

MakeRelationshipRequest(s, sender, receiver) ==
    /\ nextThread <= MaxThreads
    /\ LET thread_id == FreshThread(nextThread)
           r == make_relationship_request(Loaded(s), sender, receiver, <<>>, thread_id)
       IN  /\ Sealing("make_relationship_request", s, r, r.out.sealed,
                      Origin("make_relationship_request", s, sender, receiver, None,
                             None, thread_id, None), 0)
           /\ nextThread' = IF Ran(s, r) THEN nextThread + 1 ELSE nextThread
    /\ UNCHANGED nextNested

MakeRelationshipAccept(s, sender, receiver, thread_id) ==
    /\ LET r == make_relationship_accept(Loaded(s), sender, receiver, thread_id, <<>>)
       IN  Sealing("make_relationship_accept", s, r, r.out.sealed,
                   Origin("make_relationship_accept", s, sender, receiver, None, None,
                          thread_id, None), 0)
    /\ UNCHANGED <<nextThread, nextNested>>

MakeRelationshipCancel(s, sender, receiver) ==
    /\ LET r == make_relationship_cancel(Loaded(s), sender, receiver)
       IN  Sealing("make_relationship_cancel", s, r, r.out.sealed,
                   Origin("make_relationship_cancel", s, sender, receiver, None, None,
                          0, None), 0)
    /\ UNCHANGED <<nextThread, nextNested>>

MakeNestedRelationshipRequest(s, parent_sender, receiver) ==
    /\ nextThread <= MaxThreads
    /\ nextNested < MaxNested
    /\ LET nested == FreshVid(nextNested + 1)
           thread_id == FreshThread(nextThread)
           r == make_nested_relationship_request(Loaded(s), parent_sender, receiver,
                                                 thread_id, nested)
       IN  /\ Sealing("make_nested_relationship_request", s, r, r.out.sealed.sealed,
                      Origin("make_nested_relationship_request", s, parent_sender,
                             receiver, None, None, thread_id,
                             IF r.ok THEN r.out.vid ELSE None), 0)
           /\ nextThread' = IF Ran(s, r) THEN nextThread + 1 ELSE nextThread
           /\ nextNested' = IF Ran(s, r) THEN nextNested + 1 ELSE nextNested

MakeNestedRelationshipAccept(s, sender, receiver, thread_id) ==
    /\ nextNested < MaxNested
    /\ LET nested == FreshVid(nextNested + 1)
           r == make_nested_relationship_accept(Loaded(s), sender, receiver, thread_id,
                                                nested)
       IN  /\ Sealing("make_nested_relationship_accept", s, r, r.out.sealed.sealed,
                      Origin("make_nested_relationship_accept", s, sender, receiver,
                             None, None, thread_id, IF r.ok THEN r.out.vid ELSE None), 0)
           /\ nextNested' = IF Ran(s, r) THEN nextNested + 1 ELSE nextNested
    /\ UNCHANGED nextThread

\* Sealing, opening and the plain handshake, as one party or two run them.
Next ==
    \/ \E s \in Parties : \E sender \in Senders(s) : \E receiver \in Others(s, sender),
          message \in Messages :
            SealMessage(s, sender, receiver, message)
    \/ \E s \in Parties : \E sender \in Senders(s) : \E receiver \in Others(s, sender),
          message \in Messages, a \in AssociatedData :
            SealMessageWithData(s, sender, receiver, message, a)
    \/ \E s \in Parties : OpenMessage(s)
    \/ \E s \in Parties : \E sender \in Parents(s) : \E receiver \in Peers(s, sender) :
            MakeRelationshipRequest(s, sender, receiver)
    \/ \E s \in Parties : \E sender \in Parents(s) : \E receiver \in Peers(s, sender),
          thread_id \in IssuedThreads :
            MakeRelationshipAccept(s, sender, receiver, thread_id)
    \/ \E s \in Parties : \E sender \in Parents(s) : \E receiver \in Peers(s, sender) :
            MakeRelationshipCancel(s, sender, receiver)

Spec == Init /\ [][Next]_vars

\* The plain and the nested handshake between two parties.
NextNested ==
    \/ \E s \in Parties : OpenMessage(s)
    \/ \E s \in Parties : \E sender \in Parents(s) : \E receiver \in Peers(s, sender) :
            MakeRelationshipRequest(s, sender, receiver)
    \/ \E s \in Parties : \E sender \in Parents(s) : \E receiver \in Peers(s, sender),
          thread_id \in IssuedThreads :
            MakeRelationshipAccept(s, sender, receiver, thread_id)
    \/ \E s \in Parties : \E sender \in Parents(s) : \E receiver \in Peers(s, sender) :
            MakeRelationshipCancel(s, sender, receiver)
    \/ \E s \in Parties : \E sender \in Parents(s) : \E receiver \in Peers(s, sender) :
            MakeNestedRelationshipRequest(s, sender, receiver)
    \/ \E s \in Parties : \E sender \in Parents(s) :
            /\ OpenedRequestAt(s) /\ last.out.nested_vid # None
            /\ MakeNestedRelationshipAccept(s, sender, last.out.nested_vid,
                                            last.out.thread_id)

SpecNested == InitNested /\ [][NextNested]_vars

\* The nested handshake between two related parties, and the messages they seal.
NextEstablished ==
    \/ \E s \in Parties : \E sender \in Senders(s) : \E receiver \in Others(s, sender),
          message \in Messages :
            SealMessage(s, sender, receiver, message)
    \/ \E s \in Parties : OpenMessage(s)
    \/ \E s \in Parties : \E sender \in Parents(s) : \E receiver \in Peers(s, sender) :
            MakeNestedRelationshipRequest(s, sender, receiver)
    \/ \E s \in Parties : \E sender \in Parents(s) :
            /\ OpenedRequestAt(s) /\ last.out.nested_vid # None
            /\ MakeNestedRelationshipAccept(s, sender, last.out.nested_vid,
                                            last.out.thread_id)

SpecEstablished == InitEstablished /\ [][NextEstablished]_vars

NextRouted ==
    \/ \E s \in Parties : \E sender \in Senders(s) : \E receiver \in Others(s, sender),
          message \in Messages :
            SealMessage(s, sender, receiver, message)
    \/ \E s \in Parties : OpenMessage(s)
    \/ \E s \in Parties : ForwardRoutedMessage(s)
    \/ \E s \in Parties, vid \in {"sneaky_d", Stranger} : SetRouteForVid(s, vid, TestRoute)

SpecRouted == InitRouted /\ [][NextRouted]_vars

(***************************************************************************)
(* Bytes that arrive from a peer.  The peer's engine may be of another     *)
(* version and seal any payload, among them the reserved PendingMessage    *)
(* and a variant this binding has no class for.                            *)
(***************************************************************************)
KnownTags ==
    {"GenericMessage", "RequestRelationship", "AcceptRelationship",
     "CancelRelationship", "ForwardRequest", "PendingMessage"}

\* Variants of a later engine.
UnknownTags == {"NewIdentifier", "Referral"}

\* The payloads a peer may seal.
Payloads ==
    {GenericPayload(m) : m \in Messages}
        \cup {RequestPayload(<<>>, t, None) : t \in 1..MaxThreads}
        \cup {AcceptPayload(t, None) : t \in 1..MaxThreads}
        \cup {CancelPayload}
        \cup {RoutedPayload(<<"c">>, Envelope("nette_a", "c", None, GenericPayload(m))) :
                 m \in Messages}
        \cup {Payload(tag, None, <<>>, 0, None, <<>>) :
                 tag \in {"PendingMessage"} \cup UnknownTags}

InitVariants ==
    /\ store = PairWorld
    /\ wallet = store
    /\ last = Idle
    /\ nextThread = 1
    /\ nextNested = 0
    /\ running = NotRunning
    /\ fault = None
    /\ stream = NoStream

\* Sealed bytes from a peer reach the caller of store s.
Arrive(s, sender, receiver, nonconfidential_data, payload) ==
    /\ last' = [Idle EXCEPT
                   !.op = "arrive", !.store = s,
                   !.msg = <<Held(Envelope(sender, receiver, nonconfidential_data, payload),
                                  Origin("arrive", s, sender, receiver, payload.message,
                                         nonconfidential_data, payload.thread_id,
                                         payload.nested_vid), 0)>>]
    /\ UNCHANGED <<store, wallet, nextThread, nextNested, running, fault, stream>>

NextVariants ==
    \/ \E s \in Parties : \E receiver \in Senders(s) : \E sender \in Others(s, receiver),
          a \in AssociatedData \cup {None}, payload \in Payloads :
            Arrive(s, sender, receiver, a, payload)
    \/ \E s \in Parties : OpenMessage(s)

SpecVariants == InitVariants /\ [][NextVariants]_vars

(***************************************************************************)
(* Registration: two parties register, forget and look up VIDs.  An        *)
(* OwnedVid is a value the caller holds, with its private key material;    *)
(* it can be handed to any store.                                          *)
(***************************************************************************)
RegisterStores == {"C", "D"}

RegisterVids == {"mailbox_c", "nette_d"}

\* How a caller registers a VID: bare, or under an alias with metadata.
Labels == {<<None, None>>, <<"drop", "m">>}

InitRegister ==
    /\ store = [s \in Stores |-> EmptyStore]
    /\ wallet = store
    /\ last = Idle
    /\ nextThread = 1
    /\ nextNested = 0
    /\ running = NotRunning
    /\ fault = None
    /\ stream = NoStream

\* The arguments of a registration call.
Registration(vid, alias, metadata) ==
    [vid |-> vid, alias |-> alias, metadata |-> metadata]

AddPrivateVid(s, vid, alias, metadata) ==
    LET r == add_private_vid(Loaded(s), vid, alias, metadata)
    IN  /\ Bracket(s, r)
        /\ Returned("add_private_vid", s, Registration(vid, alias, metadata), r, <<>>)
        /\ UNCHANGED <<nextThread, nextNested>>

AddVerifiedOwnedVid(s, vid, alias, metadata) ==
    LET r == add_verified_owned_vid(Loaded(s), vid, alias, metadata)
    IN  /\ Bracket(s, r)
        /\ Returned("add_verified_owned_vid", s, Registration(vid, alias, metadata), r,
                    <<>>)
        /\ UNCHANGED <<nextThread, nextNested>>

ForgetVid(s, vid) ==
    LET r == forget_vid(Loaded(s), vid)
    IN  /\ Bracket(s, r)
        /\ Returned("forget_vid", s, Registration(vid, None, None), r, <<>>)
        /\ UNCHANGED <<nextThread, nextNested>>

ResolveAlias(s, alias) ==
    LET r == resolve_alias(Loaded(s), alias)
    IN  /\ Bracket(s, r)
        /\ Returned("resolve_alias", s, Registration(None, alias, None), r, <<>>)
        /\ UNCHANGED <<nextThread, nextNested>>

NextRegister ==
    \/ \E s \in RegisterStores, vid \in RegisterVids, l \in Labels :
            AddPrivateVid(s, vid, l[1], l[2])
    \/ \E s \in RegisterStores, vid \in RegisterVids :
            AddVerifiedOwnedVid(s, vid, None, None)
    \/ \E s \in RegisterStores, vid \in RegisterVids : ForgetVid(s, vid)
    \/ \E s \in RegisterStores, alias \in Aliases : ResolveAlias(s, alias)

SpecRegister == InitRegister /\ [][NextRegister]_vars

(***************************************************************************)
(* Routes: a party that knows a peer under an alias, with metadata, and    *)
(* has asked it for a relationship, sets and resets routes.                *)
(***************************************************************************)
\* The originator of test_routed, with its peer registered under an alias.
LabelledWorld ==
    [s \in Stores |->
        IF s = "A"
        THEN make_relationship_request(
                 add_verified_owned_vid(
                     add_private_vid(EmptyStore, "sneaky_a", "home", None).st,
                     "sneaky_d", "drop", "m").st,
                 "sneaky_a", "sneaky_d", <<>>, ParentThread).st
        ELSE EmptyStore]

\* The routes a caller sets.
Routes == {TestRoute, <<"b">>, <<"c", "b">>, <<"b", "c">>}

InitRoutes ==
    /\ store = LabelledWorld
    /\ wallet = store
    /\ last = Idle
    /\ nextThread = 1
    /\ nextNested = 0
    /\ running = NotRunning
    /\ fault = None
    /\ stream = NoStream

NextRoutes ==
    \/ \E s \in Parties, vid \in {"sneaky_a", "sneaky_d", "b"}, route \in Routes :
            SetRouteForVid(s, vid, route)
    \/ \E s \in Parties, alias \in Aliases : ResolveAlias(s, alias)

SpecRoutes == InitRoutes /\ [][NextRoutes]_vars

\* ---------------------------------------------------------------------------
\* The asynchronous wrapper of example.py: AsyncStore and its stream of received
\* messages.

MaxInbound == 2

\* The store that listens, and the address it listens on.
Listener == "B"

\* What the transport may deliver to the listener: one message of every kind.
Inbound ==
    {Envelope("nette_a", "b", None, payload) :
        payload \in {GenericPayload(m) : m \in Messages}
                        \cup {RequestPayload(<<>>, 1, None), AcceptPayload(1, None),
                              CancelPayload,
                              RoutedPayload(<<"c">>, Envelope("nette_a", "c", None,
                                                              GenericPayload("bye"))),
                              Payload("PendingMessage", None, <<>>, 0, None, <<>>),
                              Payload("Referral", None, <<>>, 0, None, <<>>)}}
        \cup {Envelope("nette_a", "b", "extra", GenericPayload("hello world"))}

TypeError(text) == [class |-> "TypeError", text |-> text]

AttributeError(text) == [class |-> "AttributeError", text |-> text]

\* The result classes of example.py: each has the one field sender.
example_AcceptRelationship(sender) == [class |-> "AcceptRelationship", sender |-> sender]

example_CancelRelationship(sender) == [class |-> "CancelRelationship", sender |-> sender]

\* ReceivedTspMessage.from_flat of example.py. Its first case builds an
\* AcceptRelationship from four arguments, one of them msg.message_type: the
\* attribute lookup raises when the flat message has no such attribute, and the
\* constructor, which takes one argument, raises when it has.
example_from_flat(msg, has_message_type) ==
    CASE msg.variant = "GenericMessage" ->
            IF has_message_type
            THEN TypeError("AcceptRelationship.__init__() takes 2 positional arguments")
            ELSE AttributeError("message_type")
      [] msg.variant = "RequestRelationship" -> ValueError("todo!")
      [] msg.variant = "AcceptRelationship" -> example_AcceptRelationship(msg.sender)
      [] msg.variant = "CancelRelationship" -> example_CancelRelationship(msg.sender)
      [] msg.variant = "ForwardRequest" -> ValueError("todo!")
      [] msg.variant = "PendingMessage" -> ValueError("todo!")
      [] OTHER -> ValueError(<<"Unrecognized variant: ", msg.variant>>)

Exceptions == {"ValueError", "TypeError", "AttributeError"}

\* next() of the engine's stream: the oldest delivered message, opened; None once
\* the transport has ended and nothing is left.
inner_next(st, pending) ==
    IF pending = <<>> THEN Ok(st, None) ELSE inner_open_message(st, Head(pending))

\* ReceivedTspMessageStream.__anext__.
anext(st, pending, has_message_type) ==
    LET result == inner_next(st, pending)
    IN  IF ~result.ok THEN result
        ELSE IF pending = <<>>
        THEN [result EXCEPT !.ok = FALSE, !.err = "StopAsyncIteration", !.out = <<>>]
        ELSE LET received == example_from_flat(result.out, has_message_type)
             IN  IF received.class \in Exceptions
                 THEN [result EXCEPT !.ok = FALSE, !.err = received.class,
                                     !.out = received]
                 ELSE [result EXCEPT !.out = received]

InitAsync ==
    /\ store = PairWorld
    /\ wallet = store
    /\ last = Idle
    /\ nextThread = 1
    /\ nextNested = 0
    /\ running = NotRunning
    /\ fault = None
    /\ stream = NoStream

\* The transport delivers a sealed message to the listener's address.
Deliver(envelope) ==
    /\ ~stream.ended
    /\ Len(stream.pending) < MaxInbound
    /\ stream' = [stream EXCEPT !.pending = Append(@, envelope)]
    /\ UNCHANGED <<store, wallet, last, nextThread, nextNested, running, fault>>

\* The transport ends.
Close ==
    /\ ~stream.ended
    /\ stream' = [stream EXCEPT !.ended = TRUE]
    /\ UNCHANGED <<store, wallet, last, nextThread, nextNested, running, fault>>

\* The caller awaits the next message of the stream; the await returns once a
\* message is there or the transport has ended.
Anext(s, has_message_type) ==
    /\ stream.pending # <<>> \/ stream.ended
    /\ LET r == anext(store[s], stream.pending, has_message_type)
       IN  /\ store' = [store EXCEPT ![s] = r.st]
           /\ last' = [Idle EXCEPT
                          !.op = "anext", !.store = s, !.ok = r.ok, !.err = r.err,
                          !.out = r.out,
                          !.msg = IF stream.pending = <<>> THEN <<>>
                                  ELSE LET e == Head(stream.pending)
                                       IN  <<Held(e, Origin("arrive", s, e.sender,
                                                            e.receiver, e.payload.message,
                                                            e.nonconfidential_data,
                                                            e.payload.thread_id,
                                                            e.payload.nested_vid), 0)>>]
    /\ stream' = [stream EXCEPT !.pending = IF @ = <<>> THEN @ ELSE Tail(@)]
    /\ UNCHANGED <<wallet, nextThread, nextNested, running, fault>>

NextAsync ==
    \/ \E envelope \in Inbound : Deliver(envelope)
    \/ Close
    \/ \E has_message_type \in BOOLEAN : Anext(Listener, has_message_type)

SpecAsync == InitAsync /\ [][NextAsync]_vars

\* ---------------------------------------------------------------------------
\* SecureStore.receive: the listener takes its messages from the transport.

InitReceive ==
    /\ store = PairWorld
    /\ wallet = store
    /\ last = Idle
    /\ nextThread = 1
    /\ nextNested = 0
    /\ running = NotRunning
    /\ fault = None
    /\ stream = NoStream

\* receive(vid) on store s: the bracket around the engine's receive and the
\* conversion; the engine has taken the message from the transport once its call ran.
Receive(s, vid, buffers) ==
    /\ LET r == receive(Loaded(s), vid, stream.pending, buffers)
       IN  /\ Bracketed(s, r)
           /\ Returned("receive", s, [vid |-> vid, buffers |-> buffers], r,
                       IF stream.pending = <<>> \/ ~Wallet_enter(store[s], wallet[s]).ok
                       THEN <<>>
                       ELSE LET e == Head(stream.pending)
                            IN  <<Held(e, Origin("arrive", s, e.sender, e.receiver,
                                                 e.payload.message,
                                                 e.nonconfidential_data,
                                                 e.payload.thread_id,
                                                 e.payload.nested_vid), 0)>>)
    /\ stream' = IF stream.pending = <<>> \/ ~Wallet_enter(store[s], wallet[s]).ok
                 THEN stream
                 ELSE [stream EXCEPT !.pending = Tail(@)]
    /\ UNCHANGED <<nextThread, nextNested>>

\* What reaches the listener here: a message that changes its relationships, one
\* that is pending, and one of a kind of a later engine.
Receivable ==
    {e \in Inbound :
        e.payload.tag \in {"RequestRelationship", "PendingMessage", "Referral"}}

NextReceive ==
    \/ \E envelope \in Receivable : Deliver(envelope)
    \/ \E buffers \in BOOLEAN : Receive(Listener, "b", buffers)
    \/ \E e \in Receivable :
          Arrive(Listener, e.sender, e.receiver, e.nonconfidential_data, e.payload)
    \/ OpenMessage(Listener)

SpecReceive == InitReceive /\ [][NextReceive]_vars

\* The routed stores, with callers that forward to any hop they like.
NextMisrouted ==
    \/ \E s \in Parties : \E sender \in Senders(s) : \E receiver \in Others(s, sender),
          message \in Messages :
            SealMessage(s, sender, receiver, message)
    \/ \E s \in Parties : OpenMessage(s)
    \/ \E s \in Parties, next_hop \in BaseVids : ForwardRoutedMessageTo(s, next_hop)

SpecMisrouted == InitRouted /\ [][NextMisrouted]_vars

(***************************************************************************)
(* Operations on wallets whose storage can fail: from some point on the    *)
(* read or the write of the wallet raises, until the storage is repaired.  *)
(***************************************************************************)
InitFaulty ==
    /\ store = PairWorld
    /\ wallet = store
    /\ last = Idle
    /\ nextThread = 1
    /\ nextNested = 0
    /\ running = NotRunning
    /\ fault = None
    /\ stream = NoStream

\* The storage starts to fail one of the wallet calls, or is repaired.
Break(f) ==
    /\ fault # f
    /\ fault' = f
    /\ UNCHANGED <<store, wallet, last, nextThread, nextNested, running, stream>>

NextFaulty ==
    \/ \E f \in WalletFaults \cup {None} : Break(f)
    \/ \E s \in Parties : \E sender \in Senders(s) : \E receiver \in Others(s, sender),
          message \in Messages :
            SealMessage(s, sender, receiver, message)
    \/ \E s \in Parties : OpenMessage(s)
    \/ \E s \in Parties : \E sender \in Parents(s) : \E receiver \in Peers(s, sender) :
            MakeRelationshipRequest(s, sender, receiver)

SpecFaulty == InitFaulty /\ [][NextFaulty]_vars

(***************************************************************************)
(* Two threads of one process calling the key-value operations of the same *)
(* SecureStore.  Nothing in Wallet or SecureStore takes a lock, so the     *)
(* three native calls of one operation (read_wallet, the body, and         *)
(* write_wallet) can have the calls of the other thread in between.        *)
(***************************************************************************)
\* The store the threads share.
Shared == "A"

\* Each thread works on a key of its own.
KeyOf(t) == IF t = "t1" THEN "k1" ELSE "k2"

KvOps == {"store_kv", "get_kv", "remove_kv"}

\* The body of a key-value operation.
KvBody(st, call) ==
    CASE call.op = "store_kv" -> store_kv(st, call.key, call.value)
      [] call.op = "get_kv" -> get_kv(st, call.key)
      [] call.op = "remove_kv" -> remove_kv(st, call.key)

InitWallet ==
    /\ store = SingleWorld
    /\ wallet = store
    /\ last = Idle
    /\ nextThread = 1
    /\ nextNested = 0
    /\ running = NotRunning
    /\ fault = None
    /\ stream = NoStream

\* Thread t calls an operation: __enter__ loads the wallet into the shared store.
Enter(t, op, key, value) ==
    /\ running[t].pc = "idle"
    /\ LET enter == Wallet_enter(store[Shared], wallet[Shared])
       IN  /\ store' = [store EXCEPT ![Shared] = enter.memory]
           /\ running' = [running EXCEPT ![t] =
                             [NoCall EXCEPT !.pc = IF enter.ok THEN "entered" ELSE "idle",
                                            !.op = op, !.key = key, !.value = value,
                                            !.ok = enter.ok, !.err = enter.err,
                                            !.calls = enter.calls]]
    /\ UNCHANGED <<wallet, last, nextThread, nextNested, fault, stream>>

\* Thread t runs the native call of its operation on the shared store.
Body(t) ==
    /\ running[t].pc = "entered"
    /\ LET r == KvBody(store[Shared], running[t])
       IN  /\ store' = [store EXCEPT ![Shared] = r.st]
           /\ running' = [running EXCEPT ![t] =
                             [@ EXCEPT !.pc = "bodied", !.ok = r.ok, !.err = r.err,
                                       !.out = r.out, !.calls = @ \o <<"body">>]]
    /\ UNCHANGED <<wallet, last, nextThread, nextNested, fault, stream>>

\* Thread t leaves the bracket: __exit__ flushes the shared store, the call returns.
Exit(t) ==
    /\ running[t].pc = "bodied"
    /\ LET exit == Wallet_exit(store[Shared], wallet[Shared], Raised(running[t]))
           done == [running[t] EXCEPT !.pc = "idle", !.calls = @ \o exit.calls,
                                      !.ok = IF exit.ok THEN @ ELSE FALSE,
                                      !.err = IF exit.ok THEN @ ELSE exit.err,
                                      !.out = IF exit.ok THEN @ ELSE None]
       IN  /\ store' = [store EXCEPT ![Shared] = exit.memory]
           /\ wallet' = [wallet EXCEPT ![Shared] = exit.persisted]
           /\ running' = [running EXCEPT ![t] = done]
           /\ last' = [Idle EXCEPT !.op = done.op, !.store = Shared,
                                   !.call = [caller |-> t, key |-> done.key,
                                             value |-> done.value],
                                   !.ok = done.ok, !.err = done.err, !.out = done.out,
                                   !.calls = done.calls]
    /\ UNCHANGED <<nextThread, nextNested, fault, stream>>

NextWallet ==
    \/ \E t \in Callers, value \in Values : Enter(t, "store_kv", KeyOf(t), value)
    \/ \E t \in Callers, op \in KvOps \ {"store_kv"} : Enter(t, op, KeyOf(t), None)
    \/ \E t \in Callers : Body(t)
    \/ \E t \in Callers : Exit(t)

SpecWallet == InitWallet /\ [][NextWallet]_vars

\* ---------------------------------------------------------------------------
\* The key-value operations of one store whose storage may fail.

InitLoad ==
    /\ store = SingleWorld
    /\ wallet = store
    /\ last = Idle
    /\ nextThread = 1
    /\ nextNested = 0
    /\ running = NotRunning
    /\ fault = None
    /\ stream = NoStream

\* store_kv, get_kv or remove_kv on store s, as one call of one caller.
KvCall(s, op, key, value) ==
    /\ LET call == [op |-> op, key |-> key, value |-> value]
           r == KvBody(Loaded(s), call)
       IN  /\ Bracket(s, r)
           /\ Returned(op, s, call, r, <<>>)
    /\ UNCHANGED <<nextThread, nextNested>>

NextLoad ==
    \/ \E f \in WalletFaults \cup {None} : Break(f)
    \/ \E key \in Keys, value \in Values : KvCall(Shared, "store_kv", key, value)
    \/ \E key \in Keys, op \in KvOps \ {"store_kv"} : KvCall(Shared, op, key, None)

SpecLoad == InitLoad /\ [][NextLoad]_vars

(***************************************************************************)
(* Properties.                                                             *)
(***************************************************************************)
\* The bytes in the caller's hand, with the call they stem from.
InHand == last.msg[1]

\* The last call opened bytes that the operation op produced.
Opened(op) ==
    /\ last.op = "open_message"
    /\ last.msg # <<>>
    /\ InHand.origin.op = op

\* Store s is the party an envelope is meant for: it holds the receiver's private key
\* material and the sender's public key material.
Addressee(s, e) == CanVerify(store[s], e) /\ CanDecrypt(store[s], e)

Range(seq) == {seq[i] : i \in 1..Len(seq)}

\* C1: seal_message(sender, receiver, m, a), with sender private and receiver
\* registered in the store, returns bytes that open, at the party they are meant for,
\* to a GenericMessage with that sender, receiver, associated data a and message m,
\* encrypted and signed.
C1_RoundTrip ==
    (/\ last.op = "seal_message"
     /\ IsPrivate(store[last.store], last.call.sender)
     /\ IsKnown(store[last.store], last.call.receiver))
    => /\ last.ok
       /\ \A t \in Stores :
            Addressee(t, InHand.sealed) =>
                LET r == open_message(store[t], InHand.sealed)
                IN  /\ r.ok
                    /\ r.out.class = "GenericMessage"
                    /\ r.out.sender = last.call.sender
                    /\ r.out.receiver = last.call.receiver
                    /\ r.out.nonconfidential_data = last.call.nonconfidential_data
                    /\ r.out.message = last.call.message
                    /\ r.out.crypto_type # "Plaintext"
                    /\ r.out.signature_type # "NoSignature"

\* C2: the bytes of make_relationship_request(s, r, route), opened by the party
\* holding r's private key, are a RequestRelationship with sender s, receiver r and
\* the thread id of that request.
C2_RequestOpensAsRequest ==
    (Opened("make_relationship_request") /\ Addressee(last.store, InHand.sealed))
    => /\ last.ok
       /\ last.out.class = "RequestRelationship"
       /\ last.out.sender = InHand.origin.sender
       /\ last.out.receiver = InHand.origin.receiver
       /\ last.out.thread_id = InHand.origin.thread_id

\* The other party has opened the request of a party.
C2_Witness ==
    /\ Opened("make_relationship_request")
    /\ last.ok
    /\ last.store # InHand.origin.store
    /\ last.out.class = "RequestRelationship"
    /\ last.out.thread_id = InHand.origin.thread_id

\* C3: the bytes of the peer's make_relationship_accept(r, s, thread_id, route), made
\* after the peer opened the request of s, open at the requester to an
\* AcceptRelationship with sender r and receiver s.
C3_AcceptOpensAsAccept ==
    (Opened("make_relationship_accept") /\ Addressee(last.store, InHand.sealed))
    => /\ InHand.origin.was = "Requested"
       /\ last.ok
       /\ last.out.class = "AcceptRelationship"
       /\ last.out.sender = InHand.origin.sender
       /\ last.out.receiver = InHand.origin.receiver

\* The requester has opened the accept of the other party and holds the pair as
\* Established.
C3_Witness ==
    /\ Opened("make_relationship_accept")
    /\ last.ok
    /\ last.store # InHand.origin.store
    /\ last.out.class = "AcceptRelationship"
    /\ RelState(store[last.store], last.out.receiver, last.out.sender) = "Established"

\* C4: the bytes of make_relationship_cancel(x, y), opened by the other party, are a
\* CancelRelationship with sender x and receiver y.
C4_CancelOpensAsCancel ==
    (Opened("make_relationship_cancel") /\ Addressee(last.store, InHand.sealed))
    => /\ last.ok
       /\ last.out.class = "CancelRelationship"
       /\ last.out.sender = InHand.origin.sender
       /\ last.out.receiver = InHand.origin.receiver

\* The other party has opened the cancel of a pair that was Established.
C4_Witness ==
    /\ Opened("make_relationship_cancel")
    /\ last.ok
    /\ last.store # InHand.origin.store
    /\ InHand.origin.was = "Established"
    /\ last.out.class = "CancelRelationship"
    /\ RelState(store[last.store], last.out.receiver, last.out.sender) = "Cancelled"

RoutedInHand ==
    /\ last.msg # <<>>
    /\ InHand.origin.op = "seal_message"
    /\ InHand.origin.route # <<>>

\* The forwards a message sealed for this route needs: one per intermediate hop.
ForwardsNeeded(route) == Len(route) - 1

\* C6: the bytes of seal_message(sender, receiver, m) for a receiver with a route open
\* at every intermediate hop to a ForwardRequest; forward_routed_message with the
\* fields of that ForwardRequest succeeds at each hop and addresses the next one; and
\* after the last forward the receiver opens a GenericMessage with the original
\* sender, receiver, message and associated data, encrypted and signed.
C6_MultiHopDelivery ==
    /\ (RoutedInHand /\ last.op = "open_message"
            /\ Addressee(last.store, InHand.sealed))
       => /\ last.ok
          /\ IF InHand.forwards < ForwardsNeeded(InHand.origin.route)
             THEN last.out.class = "ForwardRequest"
             ELSE /\ last.out.class = "GenericMessage"
                  /\ last.out.sender = InHand.origin.sender
                  /\ last.out.receiver = InHand.origin.receiver
                  /\ last.out.message = InHand.origin.message
                  /\ last.out.nonconfidential_data = InHand.origin.nonconfidential_data
                  /\ last.out.crypto_type # "Plaintext"
                  /\ last.out.signature_type # "NoSignature"
    /\ (last.op = "forward_routed_message" /\ last.call.route # <<>>)
       => /\ last.ok
          /\ InHand.forwards <= ForwardsNeeded(last.call.route)
          /\ InHand.sealed.receiver =
                IF InHand.forwards < ForwardsNeeded(last.call.route)
                THEN last.call.route[InHand.forwards + 1]
                ELSE last.call.receiver

\* The receiver has opened a routed message after both hops forwarded it.
C6_Witness ==
    /\ RoutedInHand
    /\ last.op = "open_message"
    /\ last.ok
    /\ InHand.forwards = ForwardsNeeded(InHand.origin.route)
    /\ InHand.forwards = 2
    /\ last.out.class = "GenericMessage"
    /\ last.out.message = InHand.origin.message

\* An intermediate hop has opened a forwarding layer of a routed message.
HopOpened ==
    /\ RoutedInHand
    /\ last.op = "open_message"
    /\ last.ok
    /\ last.out.class = "ForwardRequest"

\* The originator's VID that has the relation with the first hop of the route.
OuterVid == store[InHand.origin.store].vids[Head(InHand.origin.route)].relation

PreviousHop ==
    IF InHand.forwards = 0 THEN OuterVid ELSE InHand.origin.route[InHand.forwards]

\* The identities an intermediate hop is shown.
HopFields ==
    {last.out.sender, last.out.receiver, last.out.next_hop} \cup Range(last.out.route)

\* What every hop sees: the previous hop as sender, itself as receiver.
HopSeesNeighbours ==
    /\ last.out.sender = PreviousHop
    /\ last.out.receiver = InHand.origin.route[InHand.forwards + 1]
    /\ IsPrivate(store[last.store], last.out.receiver)

\* C7 as stated: in a ForwardRequest opened at an intermediate hop the sender is the
\* previous hop, the receiver is the hop's own VID, and neither the inner sender nor
\* the final receiver is among sender, receiver, next_hop and route.
C7_HopViewAsStated ==
    HopOpened =>
        /\ HopSeesNeighbours
        /\ InHand.origin.sender \notin HopFields
        /\ InHand.origin.receiver \notin HopFields

\* C7: in a ForwardRequest opened at an intermediate hop the sender is the previous
\* hop, the receiver is the hop's own VID, the final receiver is not among sender,
\* receiver, next_hop and route, and neither is the inner sender, unless the message
\* was sealed with the originator's outer VID as its sender.
C7_HopView ==
    HopOpened =>
        /\ HopSeesNeighbours
        /\ InHand.origin.receiver \notin HopFields
        /\ (InHand.origin.sender # OuterVid => InHand.origin.sender \notin HopFields)
        /\ (InHand.forwards > 0 => InHand.origin.sender \notin HopFields)

\* The second hop has opened the layer the first hop made, of a message whose inner
\* sender is not the originator's outer VID.
C7_Witness ==
    /\ HopOpened
    /\ InHand.forwards = 1
    /\ InHand.origin.sender # OuterVid
    /\ last.out.sender = "b"

\* What a store can read of an envelope with the key material it holds: it removes
\* every layer it can decrypt.
RECURSIVE Readable(_, _)
Readable(st, e) ==
    IF ~CanDecrypt(st, e) THEN {}
    ELSE IF e.payload.tag = "ForwardRequest"
    THEN UNION {Readable(st, inner) : inner \in Range(e.payload.inner)}
    ELSE {e.payload.message}

\* The stores of the intermediate hops of a route.
HopStores(route) ==
    {t \in Stores : \E i \in 1..Len(route) : IsPrivate(store[t], route[i])}

\* C8: no intermediate hop can read the inner message of a routed message, from the
\* sealed bytes or from the opaque_payload it is handed; a hop cannot open what it
\* is to forward; and only a store holding the final receiver's private key material
\* can open the innermost envelope.
C8_PayloadConfidential ==
    RoutedInHand =>
        /\ \A t \in HopStores(InHand.origin.route) :
              InHand.origin.message \notin Readable(store[t], InHand.sealed)
        /\ HopOpened =>
              \A inner \in Range(last.out.opaque_payload) :
                  /\ InHand.origin.message \notin Readable(store[last.store], inner)
                  /\ ~open_message(store[last.store], inner).ok
        /\ \A t \in Stores :
              InHand.origin.message \in Readable(store[t], InHand.sealed)
                  => IsPrivate(store[t], InHand.origin.receiver)

\* The second hop has opened its layer and holds the opaque payload.
C8_Witness ==
    /\ HopOpened
    /\ last.store = "C"
    /\ last.out.opaque_payload # <<>>
    /\ InHand.origin.message \in Messages

\* C9: the VID returned by make_nested_relationship_request(parent, receiver) is
\* private to the caller and is the nested_vid of the RequestRelationship the peer
\* opens, whose sender is the parent; the VID returned by
\* make_nested_relationship_accept(sender, peer_nested_vid, thread_id) is the
\* nested_vid of the AcceptRelationship the requester opens.
C9_NestedDisclosure ==
    /\ (Opened("make_nested_relationship_request")
            /\ Addressee(last.store, InHand.sealed))
       => /\ last.ok
          /\ last.out.class = "RequestRelationship"
          /\ last.out.sender = InHand.origin.sender
          /\ last.out.nested_vid = InHand.origin.nested_vid
          /\ IsPrivate(store[InHand.origin.store], InHand.origin.nested_vid)
    /\ (Opened("make_nested_relationship_accept")
            /\ Addressee(last.store, InHand.sealed))
       => /\ last.ok
          /\ last.out.class = "AcceptRelationship"
          /\ last.out.sender = InHand.origin.sender
          /\ last.out.nested_vid = InHand.origin.nested_vid
          /\ IsPrivate(store[InHand.origin.store], InHand.origin.nested_vid)

\* The requester has opened the nested accept of the peer: it learns the peer's
\* nested VID, which answers the one it minted itself.
C9_Witness ==
    /\ Opened("make_nested_relationship_accept")
    /\ last.ok
    /\ last.store # InHand.origin.store
    /\ last.out.nested_vid \in NestedVids
    /\ InHand.origin.receiver \in NestedVids
    /\ IsPrivate(store[last.store], InHand.origin.receiver)

NestedPeer(t) ==
    /\ IsPrivate(store[t], last.call.receiver)
    /\ RelState(store[t], last.call.receiver, last.call.sender) = "Established"

\* C11: once the parents and then the nested VIDs have completed their handshakes,
\* seal_message(nested_a, nested_b, m) succeeds on the store that holds nested_a, and
\* the bytes open on the store that holds nested_b to a GenericMessage with sender
\* nested_a, receiver nested_b and message m, encrypted and signed; neither store
\* needs a registration call.
C11_NestedMessaging ==
    (/\ last.op = "seal_message"
     /\ last.call.sender \in NestedVids
     /\ last.call.receiver \in NestedVids
     /\ last.call.was = "Established"
     /\ \E t \in Stores \ {last.store} : NestedPeer(t))
    => /\ last.ok
       /\ \A t \in Stores :
            NestedPeer(t) =>
                LET r == open_message(store[t], InHand.sealed)
                IN  /\ r.ok
                    /\ r.out.class = "GenericMessage"
                    /\ r.out.sender = last.call.sender
                    /\ r.out.receiver = last.call.receiver
                    /\ r.out.message = last.call.message
                    /\ r.out.crypto_type # "Plaintext"
                    /\ r.out.signature_type # "NoSignature"

\* The acceptor has opened a message the requester sealed between the nested VIDs.
C11_Witness ==
    /\ Opened("seal_message")
    /\ last.ok
    /\ last.store = "B"
    /\ InHand.origin.store = "A"
    /\ InHand.origin.was = "Established"
    /\ InHand.origin.sender \in NestedVids
    /\ last.out.class = "GenericMessage"
    /\ last.out.receiver \in NestedVids
    /\ RelState(store["B"], "b", "nette_a") = "Established"

\* The last call got into its method: a call with an argument too many never does.
Entered == last.op # "init" /\ last.err # "TypeError"

\* C12: every operation of SecureStore loads the persisted wallet before its body
\* runs and flushes it exactly once after the body, whether the body returned or
\* raised; after the call what is persisted is what the store holds in memory.
C12_WalletBracket ==
    Entered =>
        /\ last.calls = <<"read_wallet", "body", "write_wallet">>
        /\ wallet[last.store] = store[last.store]

\* An operation whose body raised inside the bracket has been flushed all the same.
C12_Witness ==
    /\ last.op = "make_relationship_accept"
    /\ ~last.ok
    /\ last.err = "NotFound"
    /\ last.calls = <<"read_wallet", "body", "write_wallet">>

\* The state a store is in once the mutation a call attempts is applied in full.
Applied(st, call) ==
    CASE call.op = "make_relationship_request" ->
            AfterRequest(st, call.call.sender, call.call.receiver, call.call.thread_id)
      [] call.op = "make_relationship_accept" ->
            inner_set_relation_for_vid(st, call.call.receiver, call.call.sender).st
      [] call.op = "make_relationship_cancel" ->
            Cancelled(st, call.call.sender, call.call.receiver)
      [] call.op = "open_message" /\ call.msg # <<>> ->
            inner_open_message(st, call.msg[1].sealed).st
      [] OTHER -> st

Quiescent == \A t \in Callers : running[t].pc = "idle"

\* C14: two operations on the same store that overlap in time behave as if they ran
\* one after the other: once both have returned, the persisted wallet holds what each
\* thread's last store_kv stored under its own key, and nothing under a key its last
\* call removed.
C14_SingleWriter ==
    Quiescent =>
        \A t \in Callers :
            /\ (running[t].op = "store_kv" /\ running[t].ok)
                   => wallet[Shared].kv[KeyOf(t)] = running[t].value
            /\ (running[t].op = "remove_kv" /\ running[t].ok)
                   => wallet[Shared].kv[KeyOf(t)] = None

\* The operations that return (endpoint, bytes).
EndpointOps ==
    {"seal_message", "make_relationship_request", "make_relationship_accept",
     "make_relationship_cancel"}

\* C15: seal_message, make_relationship_request, make_relationship_accept and
\* make_relationship_cancel each return, with the sealed bytes, the transport
\* endpoint registered for the receiver VID passed to the call.
C15_ReturnedEndpoint ==
    (last.op \in EndpointOps /\ last.ok) =>
        /\ last.out.endpoint = EndpointOf(last.call.receiver)
        /\ last.msg # <<>>
        /\ InHand.sealed = last.out.sealed

\* A cancel has returned the endpoint of the peer it was addressed to.
C15_Witness ==
    /\ last.op = "make_relationship_cancel"
    /\ last.ok
    /\ last.call.sender = "nette_a"
    /\ last.call.receiver = "b"
    /\ last.out.endpoint = EndpointOf("b")

KnownThreads ==
    {r.thread_id : r \in UNION {store[s].rel : s \in Stores}}
        \cup {last.msg[i].origin.thread_id : i \in 1..Len(last.msg)}

MessageClasses == KnownTags \ {"PendingMessage"}

\* The last call opened bytes at the store they are meant for.
OpenedHere ==
    /\ last.op = "open_message"
    /\ last.msg # <<>>
    /\ Addressee(last.store, InHand.sealed)

\* C18: every message that open_message opens is returned as exactly one of
\* GenericMessage, RequestRelationship, AcceptRelationship, CancelRelationship and
\* ForwardRequest, the one of the variant tag of the decoded message, with sender,
\* receiver and the fields of that variant as they are in the decoded message.
C18_ExactlyOneClass ==
    (last.op = "open_message" /\ last.ok) =>
        LET e == InHand.sealed
            out == last.out
        IN  /\ out.class \in MessageClasses
            /\ out.class = e.payload.tag
            /\ out.sender = e.sender
            /\ out.receiver = e.receiver
            /\ out.class = "GenericMessage" =>
                   /\ out.message = e.payload.message
                   /\ out.nonconfidential_data = e.nonconfidential_data
                   /\ out.crypto_type = e.crypto_type
                   /\ out.signature_type = e.signature_type
            /\ out.class = "RequestRelationship" =>
                   /\ out.route = e.payload.route
                   /\ out.nested_vid = e.payload.nested_vid
                   /\ out.thread_id = e.payload.thread_id
            /\ out.class = "AcceptRelationship" =>
                   out.nested_vid = e.payload.nested_vid
            /\ out.class = "CancelRelationship" =>
                   DOMAIN out = {"class", "sender", "receiver"}
            /\ out.class = "ForwardRequest" =>
                   /\ out.next_hop = Head(e.payload.route)
                   /\ out.route = Tail(e.payload.route)
                   /\ out.opaque_payload = e.payload.inner

\* A CancelRelationship from a peer has been opened and returned as such.
C18_Witness ==
    /\ OpenedHere
    /\ last.ok
    /\ InHand.origin.op = "arrive"
    /\ InHand.sealed.payload.tag = "CancelRelationship"
    /\ last.out.class = "CancelRelationship"

\* C19: opening a message whose tag is none of the six known variants fails: the
\* call raises the error for an unrecognized variant, which names the tag, and
\* returns no value, not even None.
C19_UnknownVariant ==
    (OpenedHere /\ InHand.sealed.payload.tag \notin KnownTags) =>
        /\ ~last.ok
        /\ last.err = "ValueError"
        /\ last.out = ValueError(<<"Unrecognized variant: ", InHand.sealed.payload.tag>>)
        /\ last.out.class \notin MessageClasses \cup {"NoneType"}

\* A message with a tag of a later engine has been opened at its receiver.
C19_Witness ==
    /\ OpenedHere
    /\ InHand.sealed.payload.tag = "Referral"
    /\ ~last.ok
    /\ last.calls = <<"read_wallet", "body", "write_wallet">>

\* The envelope with another variant tag.
WithTag(e, tag) == [e EXCEPT !.payload.tag = tag]

\* The error types of a message the store cannot verify or decrypt and of a
\* malformed one.
OtherFailures == {"SignatureInvalid", "DecryptionFailed", "MalformedRoute"}

\* C20: opening a PendingMessage fails, and the type of the error differs from the
\* type of the error for an unrecognized tag, for a malformed message and for a
\* message the store cannot decrypt.
C20_UnsupportedDistinct ==
    (OpenedHere /\ InHand.sealed.payload.tag = "PendingMessage") =>
        /\ ~last.ok
        /\ last.err \notin OtherFailures
        /\ \A tag \in UnknownTags :
               last.err # open_message(store[last.store], WithTag(InHand.sealed, tag)).err

\* C21: an operation whose wallet flush fails fails towards the caller with the
\* error of the flush, also when its body succeeded, and the caller gets neither the
\* return value of the body nor sealed bytes.
C21_FlushFailureSurfaces ==
    [][(/\ fault = "write_wallet"
        /\ last' # last
        /\ Entered')
       => /\ last'.calls = <<"read_wallet", "body", "write_wallet">>
          /\ ~last'.ok
          /\ last'.err = "WalletError"
          /\ last'.out = <<>>
          /\ last'.op # "open_message" => last'.msg = <<>>]_vars

\* A request whose body succeeded, so that the pair is Requested in memory, has
\* failed with the error of the flush; the persisted wallet has no such pair.
C21_Witness ==
    /\ last.op = "make_relationship_request"
    /\ ~last.ok
    /\ last.err = "WalletError"
    /\ last.calls = <<"read_wallet", "body", "write_wallet">>
    /\ RelState(store[last.store], last.call.sender, last.call.receiver) = "Requested"
    /\ RelState(wallet[last.store], last.call.sender, last.call.receiver) = "NoRelation"

\* C22: seal_message towards a receiver that is not registered in the store and
\* forward_routed_message towards a next hop that is not registered in the store
\* fail with UnknownRecipient, return no sealed bytes and leave the store, in memory
\* and persisted, as it was.
C22_UnknownRecipient ==
    [][(\/ /\ last'.op = "seal_message"
           /\ ~IsKnown(store[last'.store], last'.call.receiver)
        \/ /\ last'.op = "forward_routed_message"
           /\ ~IsKnown(store[last'.store], last'.call.next_hop))
       => /\ ~last'.ok
          /\ last'.err = "UnknownRecipient"
          /\ last'.out = <<>>
          /\ last'.msg = <<>>
          /\ store'[last'.store] = store[last'.store]
          /\ wallet'[last'.store] = wallet[last'.store]]_vars

\* The first hop has tried to forward to a VID it has not registered.
C22_Witness ==
    /\ last.op = "forward_routed_message"
    /\ last.store = "B"
    /\ last.call.next_hop = "mailbox_c"
    /\ ~last.ok
    /\ last.err = "UnknownRecipient"

\* A seal towards a VID nobody registered has failed.
C22_WitnessSeal ==
    /\ last.op = "seal_message"
    /\ last.call.receiver = Stranger
    /\ last.err = "UnknownRecipient"

\* The stores that hold the private key material of a VID.
Holders(v) == {s \in Stores : IsPrivate(store[s], v)}

\* C23: the private key material of a VID is held by at most one store; every other
\* store that knows the VID knows it as verified, by its public key material.
C23_NoKeyAliasing ==
    \A v \in AllVids : Cardinality(Holders(v)) <= 1

\* The alias no caller ever registers a VID under.
NeverRegistered == Aliases \ {l[1] : l \in Labels}

\* C24: resolve_alias(alias) succeeds and leaves the store as it was, in memory and
\* persisted, so that the same call made again returns the same VID; for an alias
\* that was never registered it returns None.
C24_ResolveAliasIdempotent ==
    [][last'.op = "resolve_alias"
       => LET s == last'.store
              again == resolve_alias(store'[s], last'.call.alias)
          IN  /\ last'.ok
              /\ last'.calls = <<"read_wallet", "body", "write_wallet">>
              /\ store'[s] = store[s]
              /\ wallet'[s] = wallet[s]
              /\ again.out = last'.out
              /\ again.st = store'[s]
              /\ last'.call.alias \in NeverRegistered => last'.out = None
              /\ last'.out # None => IsKnown(store'[s], last'.out)]_vars

\* An alias has been resolved to the VID registered under it.
C24_Witness ==
    /\ last.op = "resolve_alias"
    /\ last.store = "C"
    /\ last.call.alias = "drop"
    /\ last.out = "nette_d"
    /\ store["C"].aliases["drop"] = "nette_d"

\* An alias that was never registered has been resolved to None.
C24_WitnessNone ==
    /\ last.op = "resolve_alias"
    /\ last.call.alias = "home"
    /\ last.out = None
    /\ \E s \in RegisterStores : store[s].aliases["drop"] # None

\* A VID the store treats as nested: one with a route, or one minted under a parent.
IsNested(st, v) == st.vids[v].route # <<>> \/ st.vids[v].parent # None

\* C25: set_route_for_vid(vid, route) on a VID the store has registered succeeds,
\* makes the VID a nested one with exactly that route, hop by hop, and changes
\* nothing else: the role and key material, the metadata, the relation, the aliases
\* and the relationships of the store are as before.
C25_SetRouteKeepsRoleData ==
    [][(/\ last'.op = "set_route_for_vid"
        /\ IsKnown(store[last'.store], last'.call.vid))
       => LET s == last'.store
              vid == last'.call.vid
              route == last'.call.route
          IN  /\ last'.ok
              /\ IsNested(store'[s], vid)
              /\ Len(store'[s].vids[vid].route) = Len(route)
              /\ \A i \in 1..Len(route) : store'[s].vids[vid].route[i] = route[i]
              /\ store'[s].vids[vid].role = store[s].vids[vid].role
              /\ store'[s].vids[vid].metadata = store[s].vids[vid].metadata
              /\ store'[s].vids[vid].relation = store[s].vids[vid].relation
              /\ store'[s].aliases = store[s].aliases
              /\ store'[s] = [store[s] EXCEPT !.vids[vid].route = route]
              /\ wallet'[s] = store'[s]]_vars

\* The peer registered under an alias, with metadata and a relation, has been given
\* the route of test_routed.
C25_Witness ==
    /\ last.op = "set_route_for_vid"
    /\ last.ok
    /\ last.call.vid = "sneaky_d"
    /\ store["A"].vids["sneaky_d"].route = TestRoute
    /\ store["A"].vids["sneaky_d"].role = "verified"
    /\ store["A"].vids["sneaky_d"].metadata = "m"
    /\ store["A"].vids["sneaky_d"].relation = "sneaky_a"
    /\ store["A"].aliases["drop"] = "sneaky_d"

\* The relation links of a store: for each VID, the VID it is related to.
Links(st) == [v \in AllVids |-> st.vids[v].relation]

\* C26: opening a ForwardRequest and calling forward_routed_message leave every
\* relationship of the hop's store as it was: the relationship records and the
\* relation links are the same after the call, in memory and persisted.
C26_RoutingKeepsRelationships ==
    [][(\/ /\ last'.op = "open_message"
           /\ last'.ok
           /\ last'.out.class = "ForwardRequest"
        \/ last'.op = "forward_routed_message")
       => LET s == last'.store
          IN  /\ store'[s].rel = store[s].rel
              /\ Links(store'[s]) = Links(store[s])
              /\ wallet'[s].rel = wallet[s].rel
              /\ Links(wallet'[s]) = Links(wallet[s])]_vars

\* The second hop, which has a relationship of its own on record, has forwarded the
\* message to the drop-off.
C26_Witness ==
    /\ last.op = "forward_routed_message"
    /\ last.ok
    /\ last.store = "C"
    /\ InHand.forwards = 2
    /\ RelState(store["C"], "nette_d", "mailbox_c") = "Requested"

CryptoFailures == {"SignatureInvalid", "DecryptionFailed"}

\* C27: open_message on a message whose sender the store cannot verify or whose
\* payload it cannot decrypt fails with SignatureInvalid or DecryptionFailed, and an
\* open_message that fails with one of the two returns no variant and no field of
\* the message and leaves the store, its relationships among it, as it was.
C27_VerifyBeforeInterpret ==
    [][last'.op = "open_message"
       => LET s == last'.store
              e == last'.msg[1].sealed
          IN  /\ ~(CanVerify(store[s], e) /\ CanDecrypt(store[s], e))
                    => last'.err \in CryptoFailures
              /\ last'.err \in CryptoFailures
                    => /\ ~last'.ok
                       /\ last'.out = <<>>
                       /\ store'[s] = store[s]
                       /\ wallet'[s] = wallet[s]]_vars

\* A relationship request from a sender the store has not registered has been
\* refused.
C27_Witness ==
    /\ last.op = "open_message"
    /\ last.err = "SignatureInvalid"
    /\ InHand.sealed.payload.tag = "RequestRelationship"
    /\ InHand.sealed.sender = Stranger
    /\ store[last.store].rel = {}

\* A cancel addressed to the other party has been refused.
C27_WitnessDecrypt ==
    /\ last.op = "open_message"
    /\ last.err = "DecryptionFailed"
    /\ InHand.sealed.payload.tag = "CancelRelationship"

\* C28: a successful make_relationship_request(sender, receiver) on a pair with no
\* relation leaves the pair Requested in the requester's store, and in no store does
\* a pair become Established in a step unless it was Requested before the step.
C28_HandshakeOrdering ==
    [][/\ (/\ last'.op = "make_relationship_request"
           /\ last'.ok
           /\ last'.call.was = "NoRelation")
          => RelState(store'[last'.store], last'.call.sender, last'.call.receiver)
                 = "Requested"
       /\ \A s \in Stores, local \in BaseVids, remote \in BaseVids :
             (/\ RelState(store'[s], local, remote) = "Established"
              /\ RelState(store[s], local, remote) # "Established")
             => RelState(store[s], local, remote) = "Requested"]_vars

\* The requester has opened the accept: the pair it asked for is Established.
C28_Witness ==
    /\ last.op = "open_message"
    /\ last.ok
    /\ last.out.class = "AcceptRelationship"
    /\ last.store = "A"
    /\ RelState(store["A"], "nette_a", "b") = "Established"
    /\ RelState(store["B"], "b", "nette_a") = "Established"

\* The route a hop is shown when it opens this envelope as a ForwardRequest.
RemainingRoute(e) == Tail(e.payload.route)

\* C29: a successful forward_routed_message built from a ForwardRequest with hops left
\* makes a forwarding layer whose remaining route is that ForwardRequest's route less
\* its first hop, and built from one with no hops left hands on the wrapped envelope,
\* which is no forwarding layer; a message sealed for a route is forwarded at most once
\* per intermediate hop; and once a store has opened it to a GenericMessage no forward
\* follows.
C29_RouteProgress ==
    [][/\ (last'.op = "forward_routed_message" /\ last'.ok)
          => /\ last'.msg[1].forwards = last.msg[1].forwards + 1
             /\ last'.msg[1].forwards <= ForwardsNeeded(last'.msg[1].origin.route)
             /\ IF last.out.route # <<>>
                THEN /\ last'.msg[1].sealed.payload.tag = "ForwardRequest"
                     /\ RemainingRoute(last'.msg[1].sealed) = Tail(last.out.route)
                     /\ Len(RemainingRoute(last'.msg[1].sealed)) = Len(last.out.route) - 1
                ELSE /\ last'.msg[1].sealed = last.out.opaque_payload[1]
                     /\ last'.msg[1].sealed.payload.tag # "ForwardRequest"
       /\ (/\ last.op = "open_message" /\ last.ok
           /\ last.out.class = "GenericMessage")
          => last'.op # "forward_routed_message"]_vars

\* The last hop has handed on the wrapped envelope of a message sealed for the
\* three-hop route, after the hop before it shortened the route.
C29_Witness ==
    /\ last.op = "forward_routed_message" /\ last.ok
    /\ last.store = "C"
    /\ InHand.origin.route = TestRoute
    /\ InHand.forwards = ForwardsNeeded(TestRoute)
    /\ InHand.sealed.payload.tag = "GenericMessage"

\* The receiver has opened the envelope the last hop handed on.
C29_WitnessOpened ==
    /\ last.op = "open_message" /\ last.ok
    /\ last.store = "D"
    /\ last.out.class = "GenericMessage"
    /\ InHand.origin.route = TestRoute
    /\ InHand.forwards = ForwardsNeeded(TestRoute)

\* C30: whenever the asynchronous stream hands the caller something, it is the oldest
\* delivered message, and the caller gets what the synchronous open_message returns
\* for that message on the same store: the same success or failure and, on success,
\* the same class with the same fields; and the stream stops the iteration only when
\* nothing is left and the transport has ended.
C30_AsyncAgrees ==
    [][last'.op = "anext"
       => IF stream.pending = <<>>
          THEN stream.ended /\ last'.err = "StopAsyncIteration"
          ELSE LET sync == open_message(store[last'.store], Head(stream.pending))
               IN  /\ last'.msg[1].sealed = Head(stream.pending)
                   /\ stream'.pending = Tail(stream.pending)
                   /\ last'.err # "StopAsyncIteration"
                   /\ last'.ok = sync.ok
                   /\ sync.ok => /\ last'.out.class = sync.out.class
                                 /\ last'.out = sync.out]_vars

\* What the engine did to the memory of store s in the call of this step.
EngineLeft(s) ==
    IF last'.op = "open_message"
    THEN inner_open_message(Loaded(s), last.msg[1].sealed).st
    ELSE inner_receive(Loaded(s), last'.call.vid, stream.pending, last'.call.buffers).st

\* C31: when open_message or receive fails in the conversion of what the engine
\* handed back, the caller gets the ValueError of the conversion, the bracket has
\* loaded, run the body and flushed, and the persisted wallet afterwards is the
\* memory as the engine's call left it, with whatever the engine kept. (A step in
\* which the transport delivers is no call.)
C31_ConversionFailureFlushes ==
    [][(/\ last'.op \in {"open_message", "receive"}
        /\ Len(stream'.pending) <= Len(stream.pending)
        /\ last'.err = "ValueError")
       => LET s == last'.store
          IN  /\ ~last'.ok
              /\ last'.out.class = "ValueError"
              /\ LET tag == last'.msg[1].sealed.payload.tag
                 IN  IF tag = "PendingMessage"
                     THEN last'.out = ValueError("todo!")
                     ELSE /\ tag \in UnknownTags
                          /\ last'.out = ValueError(<<"Unrecognized variant: ", tag>>)
              /\ last'.calls = <<"read_wallet", "body", "write_wallet">>
              /\ store'[s] = EngineLeft(s)
              /\ wallet'[s] = EngineLeft(s)]_vars

\* receive has failed on a pending message that the engine kept, and the kept
\* message is in the persisted wallet.
C31_Witness ==
    /\ last.op = "receive" /\ ~last.ok
    /\ last.err = "ValueError" /\ last.out = ValueError("todo!")
    /\ InHand.sealed.payload.tag = "PendingMessage"
    /\ InHand.sealed \in store[last.store].buffered
    /\ InHand.sealed \in wallet[last.store].buffered

\* open_message has failed on a message of a kind of a later engine.
C31_WitnessOpen ==
    /\ last.op = "open_message" /\ ~last.ok
    /\ last.err = "ValueError"
    /\ InHand.sealed.payload.tag \in UnknownTags
    /\ last.calls = <<"read_wallet", "body", "write_wallet">>

\* C32: a key-value operation called while read_wallet fails makes the one call
\* read_wallet, runs no body and no write_wallet, fails towards the caller with the
\* error of the load and without a return value, and leaves the persisted wallet and
\* the memory of the store as they were.
C32_LoadFailureSkips ==
    [][(fault = "read_wallet" /\ fault' = fault)
       => /\ last'.op \in KvOps
          /\ last'.calls = <<"read_wallet">>
          /\ ~last'.ok
          /\ last'.err = "WalletError"
          /\ last'.out = <<>>
          /\ wallet' = wallet
          /\ store' = store]_vars

\* A store_kv of a value the wallet does not hold has failed in the load.
C32_Witness ==
    /\ last.op = "store_kv" /\ ~last.ok
    /\ last.err = "WalletError"
    /\ last.calls = <<"read_wallet">>
    /\ fault = "read_wallet"
    /\ wallet[last.store].kv[last.call.key] # last.call.value
    /\ store[last.store].kv[last.call.key] # last.call.value

====
